---- MODULE Spec2Model ----
(***************************************************************************)
(* A model of the VerusDB engine (src/src/engine/VerusDB.js), its schema   *)
(* validator (src/src/schema/Schema.js), its field encryption              *)
(* (src/unnamed/part_004, VerusEncryption) and its storage layer           *)
(* (src/unnamed/part_003, VDBStorage).                                     *)
(*                                                                         *)
(* The specifications share the same state:                                *)
(*   Spec      every public call is awaited before the next one starts, so *)
(*             a call is one atomic step (handler + save);                 *)
(*   OkSpec    the runs of Spec in which every call is fulfilled;          *)
(*   ConcSpec  calls are issued without awaiting one another; a call is    *)
(*             split at its await points, which are the only places where  *)
(*             another call can run, and saves go through the save queue;  *)
(*   SaveSpec  the storage alone: saveToFile requests arriving at any time *)
(*             and _performSave split at its file operations, each of     *)
(*             which may fail (FairSaveSpec: every operation completes);   *)
(*   OpenSpec  the file is written, damaged or not, and opened by a new    *)
(*             instance with the same or another passphrase;               *)
(*   QuerySpec find with operator queries and sort options on every small  *)
(*             collection of documents with an optional number field;      *)
(*   ImportSpec the calls of Spec, then export() and import() of the tree  *)
(*             into a new, empty instance;                                 *)
(*   BackupSpec SaveSpec with backup() possible at any moment;             *)
(*   HandedSpec Spec with a caller that changes an array of a document     *)
(*             that find handed out;                                       *)
(*   LogSpec   the storage with its operation log, compact(), saves that   *)
(*             serialize when they start, and the key and salt in use;     *)
(*   PrefixSpec the calls of Spec on two collections named 'c' and 'c.d'.  *)
(***************************************************************************)
EXTENDS Integers, Sequences, FiniteSets, TLC

\* ------------------------------------------------------------------ bounds
MaxIds == 2        \* number of distinct _id strings in play
MaxIv == 2         \* number of field encryptions in one run
MaxN == 2          \* largest number a document field reaches
MaxTags == 2       \* maxLength of the array field of the schema "tagged"
MaxSaves == 4      \* saveToFile requests in one run of SaveSpec
MaxTasks == 2      \* calls in flight at once under ConcSpec
MaxCalls == 5      \* calls issued in one run of Spec
MaxConcCalls == 4  \* calls issued in one run of ConcSpec

Names == {"c"}
UserFields == {"email", "n", "ssn", "tags"}
SystemFields == {"_id", "createdAt", "updatedAt"}
AllFields == UserFields \cup SystemFields
IVs == 1..MaxIv

\* ------------------------------------------------------------------ values
\* A JavaScript value: t is its typeof-like tag, s/n its text or number.
\* iv > 0 marks the base64 string produced by encryptField (iv || ciphertext),
\* whose plaintext is the JSON text of the value (pt, s, n).
Undef == [t |-> "undefined", s |-> "", n |-> 0, iv |-> 0, pt |-> ""]
Str(x) == [t |-> "string", s |-> x, n |-> 0, iv |-> 0, pt |-> ""]
Num(k) == [t |-> "number", s |-> "", n |-> k, iv |-> 0, pt |-> ""]
DateV(k) == [t |-> "date", s |-> "", n |-> k, iv |-> 0, pt |-> ""]
IsoStr(k) == [t |-> "string", s |-> "iso", n |-> k, iv |-> 0, pt |-> ""]
IdStr(k) == [t |-> "string", s |-> "id", n |-> k, iv |-> 0, pt |-> ""]
\* an array of k elements, each the string 'b'
Arr(k) == [t |-> "array", s |-> "b", n |-> k, iv |-> 0, pt |-> ""]

Ids == {IdStr(k) : k \in 1..MaxIds}
Emails == {Str("x"), Str("y")}

\* crypto.randomBytes(16) never repeats in practice: every encryption takes
\* the next unused iv (the variable ivNext).
encryptField(value, iv) ==
  [t |-> "string", s |-> value.s, n |-> value.n, iv |-> iv, pt |-> value.t]

decryptField(value) ==
  [t |-> value.pt, s |-> value.s, n |-> value.n, iv |-> 0, pt |-> ""]

\* JSON.parse(JSON.stringify(v)): a Date becomes its ISO string.
JsonValue(v) == IF v.t = "date" THEN IsoStr(v.n) ELSE v

\* String(value) as used for index keys
StringOf(v) ==
  IF v.t = "undefined" THEN Str("__undefined__")
  ELSE IF v.t = "number" THEN [t |-> "string", s |-> "num", n |-> v.n, iv |-> 0, pt |-> ""]
  ELSE IF v.t = "date" THEN [t |-> "string", s |-> "datestr", n |-> v.n, iv |-> 0, pt |-> ""]
  ELSE IF v.t = "array" THEN [t |-> "string", s |-> "joined", n |-> v.n, iv |-> 0, pt |-> ""]
  ELSE v

\* a !== b is FALSE: primitives of the same type and value.  Two arrays are
\* compared only by updateIndexesOnUpdate, where they are one object (same
\* content) or the array before and after $set/$pull.
StrictEq(a, b) == a.t # "date" /\ a = b

\* ------------------------------------------------------------------ schema
validateFieldDefinition(type, unique, encrypted, maxLength) ==
  [type |-> type, required |-> FALSE, unique |-> unique, encrypted |-> encrypted,
   maxLength |-> maxLength]

NoField == [type |-> "none", required |-> FALSE, unique |-> FALSE, encrypted |-> FALSE,
            maxLength |-> Undef]

\* The schemas createCollection is called with, after validateSchema:
\*   users   {email: {type: 'string', unique: true}}
\*   secret  {ssn: {type: 'string', unique: true, encrypted: true}}
\*   counter {n: {type: 'number'}}
\*   tagged  {tags: {type: 'array', maxLength: 2}}
SchemaOf(sid) ==
  [f \in UserFields |->
     IF sid = "users" /\ f = "email" THEN validateFieldDefinition("string", TRUE, FALSE, Undef)
     ELSE IF sid = "secret" /\ f = "ssn" THEN validateFieldDefinition("string", TRUE, TRUE, Undef)
     ELSE IF sid = "counter" /\ f = "n" THEN validateFieldDefinition("number", FALSE, FALSE, Undef)
     ELSE IF sid = "tagged" /\ f = "tags" THEN validateFieldDefinition("array", FALSE, FALSE, Num(MaxTags))
     ELSE NoField]

SchemaIds == {"users", "secret", "counter", "tagged"}

SchemaFields(schema) == {f \in UserFields : schema[f].type # "none"}

isValidType(value, type) ==
  CASE type = "string" -> value.t = "string"
    [] type = "number" -> value.t = "number"
    [] type = "date" -> value.t = "date" \/ (value.t = "string" /\ value.s = "iso")
    [] type = "array" -> value.t = "array"
    [] OTHER -> FALSE

NoDoc == [f \in AllFields |-> Undef]

\* validateDocument: [ok, err, doc]; id is what generateId() returns, now is
\* new Date().
validateDocument(document, schema, id, now) ==
  LET fields == SchemaFields(schema)
      badType == {f \in fields : document[f] # Undef /\ ~isValidType(document[f], schema[f].type)}
      missing == {f \in fields : document[f] = Undef /\ schema[f].required}
      tooLong == {f \in fields : /\ document[f] # Undef
                                  /\ schema[f].type = "array"
                                  /\ schema[f].maxLength # Undef
                                  /\ document[f].n > schema[f].maxLength.n}
      extra == {f \in UserFields \ fields : document[f] # Undef}
      validated == [f \in AllFields |->
                      IF f \in fields THEN document[f]
                      ELSE IF f = "_id" THEN (IF document[f] = Undef THEN id ELSE document[f])
                      ELSE IF f = "createdAt" THEN (IF document[f] = Undef THEN now ELSE document[f])
                      ELSE IF f = "updatedAt" THEN now
                      ELSE Undef]
  IN  IF missing # {} THEN [ok |-> FALSE, err |-> "required", doc |-> NoDoc]
      ELSE IF badType # {} THEN [ok |-> FALSE, err |-> "type", doc |-> NoDoc]
      ELSE IF tooLong # {} THEN [ok |-> FALSE, err |-> "maxLength", doc |-> NoDoc]
      ELSE IF extra # {} THEN [ok |-> FALSE, err |-> "extra", doc |-> NoDoc]
      ELSE [ok |-> TRUE, err |-> "", doc |-> validated]

\* a processDocumentForStorage that stores the document as it is given
processDocumentUnencrypted(document, schema, iv) == document

\* processDocumentForStorage / processDocumentFromStorage
processDocumentForStorage(document, schema, iv) ==
  [f \in AllFields |->
     IF f \in UserFields /\ schema[f].encrypted /\ document[f] # Undef
     THEN encryptField(document[f], iv) ELSE document[f]]

processDocumentFromStorage(document, schema) ==
  [f \in AllFields |->
     IF f \in UserFields /\ schema[f].encrypted /\ document[f] # Undef
     THEN decryptField(document[f]) ELSE document[f]]

\* does processDocumentForStorage call encryptField for this document?
Encrypts(document, schema) ==
  \E f \in UserFields : schema[f].encrypted /\ document[f] # Undef

\* ------------------------------------------------------- queries, updates
\* A query is a set of [f, v]: field f compared with the literal v.
\* The value of an entry is a literal (a value as above) or an object:
\*   [t |-> "operators", ops |-> <<[op, v], ...>>]   {$gte: 1, $lt: 2}
\*   [t |-> "list", items |-> a set]                  an array literal
\* A field the document does not have reads as undefined.
getFieldValue(document, field) == IF field \in DOMAIN document THEN document[field] ELSE Undef

\* a < b as JavaScript evaluates it on the values queried here: a Date
\* converts to its time; undefined and the strings of the model, none of
\* which is numeric, convert to NaN, and every comparison with NaN is false
Less(a, b) == a.t \in {"number", "date"} /\ b.t \in {"number", "date"} /\ a.n < b.n

\* a <= b, which is not the negation of b < a when an operand is undefined
LessEq(a, b) == a.t \in {"number", "date"} /\ b.t \in {"number", "date"} /\ a.n <= b.n

\* Object.entries of the object given as the value of a query entry: the
\* operators in the order written; the indices of an array; none for a Date
Entries(v) ==
  IF v.t = "operators" THEN v.ops
  ELSE IF v.t = "list" THEN [i \in 1..Cardinality(v.items) |-> [op |-> "0", v |-> Undef]]
  ELSE IF v.t = "array" THEN [i \in 1..v.n |-> [op |-> "0", v |-> Undef]]
  ELSE <<>>

\* matchesOperator from its i-th entry on: "true", "false" or "throw".  The
\* patterns of $regex are the one-letter strings of the model, which match a
\* string equal to them and no number, date or undefined.
RECURSIVE matchesOperator(_, _, _)
matchesOperator(value, operator, i) ==
  IF i > Len(operator) THEN "true"
  ELSE LET op == operator[i].op
           opValue == operator[i].v
           isArray == opValue.t = "list"
           fails ==
             CASE op = "$eq" -> ~StrictEq(value, opValue)
               [] op = "$ne" -> StrictEq(value, opValue)
               [] op = "$gt" -> LessEq(value, opValue)
               [] op = "$gte" -> Less(value, opValue)
               [] op = "$lt" -> LessEq(opValue, value)
               [] op = "$lte" -> Less(opValue, value)
               [] op = "$in" -> ~isArray \/ value \notin opValue.items
               [] op = "$nin" -> ~isArray \/ value \in opValue.items
               [] op = "$regex" -> ~(value.t = "string" /\ value.s = opValue.s)
               [] OTHER -> FALSE
       IN  IF op \notin {"$eq", "$ne", "$gt", "$gte", "$lt", "$lte", "$in", "$nin", "$regex"}
           THEN "throw"
           ELSE IF fails THEN "false"
           ELSE matchesOperator(value, operator, i + 1)

\* one entry of the query on one document
matchesEntry(document, q) ==
  IF q.v.t \in {"operators", "list", "array", "date"}
  THEN matchesOperator(getFieldValue(document, q.f), Entries(q.v), 1)
  ELSE IF StrictEq(getFieldValue(document, q.f), q.v) THEN "true" ELSE "false"

\* matchesQuery returns true (a query here has at most one entry)
matchesQuery(document, query) ==
  \A q \in query : matchesEntry(document, q) = "true"

\* matchesQuery throws 'Unsupported operator'
matchesQueryThrows(document, query) ==
  \E q \in query : matchesEntry(document, q) = "throw"

\* filterDocuments: matches on the decrypted copy, returns the stored ones
filterDocuments(documents, query, schema) ==
  SelectSeq(documents, LAMBDA d : matchesQuery(processDocumentFromStorage(d, schema), query))

\* find(name, query): the decrypted matches in map order
findIn(documents, query, schema) ==
  LET m == filterDocuments(documents, query, schema)
  IN  [i \in 1..Len(m) |-> processDocumentFromStorage(m[i], schema)]

\* The comparator of sortDocuments on documents a and b from the i-th key of
\* sort, a sequence of [field, direction]: negative, zero or positive
RECURSIVE compare(_, _, _, _)
compare(a, b, sort, i) ==
  IF i > Len(sort) THEN 0
  ELSE LET aValue == getFieldValue(a, sort[i].field)
           bValue == getFieldValue(b, sort[i].field)
           c == IF Less(aValue, bValue) THEN -1
                ELSE IF Less(bValue, aValue) THEN 1 ELSE 0
           comparison == IF sort[i].direction = -1 THEN 0 - c ELSE c
       IN  IF comparison # 0 THEN comparison ELSE compare(a, b, sort, i + 1)

\* sortDocuments: the orders Array.prototype.sort may leave.  The sort is
\* stable; when the comparator is not consistent on the elements (ECMA-262,
\* 23.1.3.30) the order is implementation-defined, so every order is possible.
sortDocuments(documents, sort) ==
  LET n == Len(documents)
      c(i, j) == compare(documents[i], documents[j], sort, 1)
      consistent == \A i, j, k \in 1..n :
                       /\ (c(i, j) = 0) = (c(j, i) = 0)
                       /\ (c(i, j) < 0) = (c(j, i) > 0)
                       /\ (c(i, j) = 0 /\ c(j, k) = 0) => c(i, k) = 0
                       /\ (c(i, j) < 0 /\ c(j, k) < 0) => c(i, k) < 0
      stable(p) == \A i, j \in 1..n :
                      i < j => \/ c(p[i], p[j]) < 0
                               \/ c(p[i], p[j]) = 0 /\ p[i] < p[j]
      orders == {p \in [1..n -> 1..n] :
                   /\ \A i, j \in 1..n : p[i] = p[j] => i = j
                   /\ consistent => stable(p)}
  IN  {[i \in 1..n |-> documents[p[i]]] : p \in orders}

\* find(name, query, {sort}): the outcomes [ok, docs]; sort = <<>> is no sort
\* option.  A throw of matchesQuery rejects the call.
find(documents, query, sort, schema) ==
  LET throws == \E i \in 1..Len(documents) :
                   matchesQueryThrows(processDocumentFromStorage(documents[i], schema), query)
      filtered == IF query = {} THEN documents
                  ELSE filterDocuments(documents, query, schema)
      sorted == IF sort = <<>> THEN {filtered} ELSE sortDocuments(filtered, sort)
  IN  IF throws THEN {[ok |-> FALSE, docs |-> <<>>]}
      ELSE {[ok |-> TRUE,
             docs |-> [i \in 1..Len(m) |-> processDocumentFromStorage(m[i], schema)]] :
               m \in sorted}

\* applyUpdate for one operator on one field
applyUpdate(document, update, now) ==
  LET f == update.field
      v == IF update.op = "$set" THEN update.value
           ELSE IF update.op = "$unset" THEN Undef
           ELSE IF update.op = "$inc"
           THEN Num((IF document[f].t = "number" THEN document[f].n ELSE 0) + update.value.n)
           ELSE IF update.op = "$push"
           THEN Arr((IF document[f].t = "array" THEN document[f].n ELSE 0) + 1)
           ELSE IF document[f].t = "array" THEN Arr(0) ELSE document[f]
  IN  [document EXCEPT ![f] = v, !["updatedAt"] = now]

\* What applyUpdate leaves in the stored document: `{ ...document }` copies
\* the fields, not the arrays they hold, so the push of $push lands in the
\* array of the stored document as well.
pushInPlace(document, update) ==
  IF update.op = "$push" /\ document[update.field].t = "array"
  THEN [document EXCEPT ![update.field] = Arr(@.n + 1)]
  ELSE document

\* ----------------------------------------------------- the document map
\* collection.documents is a Map keyed by _id: a sequence in insertion order.
MapHas(documents, id) == \E i \in 1..Len(documents) : documents[i]["_id"] = id

MapSet(documents, id, doc) ==
  IF MapHas(documents, id)
  THEN [i \in 1..Len(documents) |-> IF documents[i]["_id"] = id THEN doc ELSE documents[i]]
  ELSE Append(documents, doc)

MapDelete(documents, id) == SelectSeq(documents, LAMBDA d : d["_id"] # id)

DocSet(documents) == {documents[i] : i \in 1..Len(documents)}

\* ------------------------------------------------------------- indexes
\* An index: its key `${name}.${field}`, its flags, and data, the pairs
\* (String(value), _id).  isMap is FALSE for an index loaded from the file,
\* whose data is the plain object serializeIndex wrote, not a Map of Sets.
\* String.split('.') on a collection name: the names of the model are 'c'
\* and, in PrefixSpec, 'c.d'; no field name holds a dot
split(name) == IF name = "c.d" THEN <<"c", "d">> ELSE <<name>>

\* indexKey.startsWith(`${collectionName}.`) for the key `${index.name}.${index.field}`
\* under which createIndex stored the index (VerusDB.js 399, 730)
indexKeyStartsWith(index, collectionName) ==
  LET indexKey == split(index.name) \o <<index.field>>
      prefix == split(collectionName)
  IN  Len(prefix) < Len(indexKey) /\ SubSeq(indexKey, 1, Len(prefix)) = prefix

\* indexKey.split('.').slice(1).join('.') (VerusDB.js 731): the field of an
\* index on 'c', and 'd.' followed by the field of an index on 'c.d'
fieldOfKey(index) ==
  IF Len(split(index.name)) = 1 THEN index.field ELSE split(index.name)[2] \o "." \o index.field

IndexPos(idx, name, field) ==
  {i \in 1..Len(idx) : idx[i].name = name /\ idx[i].field = field}

IndexHas(idx, name, field) == IndexPos(idx, name, field) # {}

addToIndex(index, value, docId) ==
  LET key == StringOf(value)
  IN  IF ~index.isMap THEN [ok |-> FALSE, err |-> "TypeError", index |-> index]
      ELSE IF index.unique /\ (\E e \in index.data : e.k = key)
      THEN [ok |-> FALSE, err |-> "DuplicateIndex", index |-> index]
      ELSE [ok |-> TRUE, err |-> "",
            index |-> [index EXCEPT !.data = @ \cup {[k |-> key, id |-> docId]}]]

removeFromIndex(index, value, docId) ==
  LET key == StringOf(value)
  IN  IF ~index.isMap THEN [ok |-> FALSE, err |-> "TypeError", index |-> index]
      ELSE [ok |-> TRUE, err |-> "",
            index |-> [index EXCEPT !.data = @ \ {[k |-> key, id |-> docId]}]]

serializeIndex(index) == [index EXCEPT !.isMap = FALSE]

RECURSIVE InsertIntoIndexes(_, _, _, _)
InsertIntoIndexes(idx, i, name, document) ==
  IF i > Len(idx) THEN [ok |-> TRUE, err |-> "", idx |-> idx]
  ELSE IF ~indexKeyStartsWith(idx[i], name) THEN InsertIntoIndexes(idx, i + 1, name, document)
  ELSE LET value == getFieldValue(document, fieldOfKey(idx[i]))
       IN  IF value # Undef \/ ~idx[i].sparse
           THEN LET r == addToIndex(idx[i], value, document["_id"])
                IN  IF r.ok
                    THEN InsertIntoIndexes([idx EXCEPT ![i] = r.index], i + 1, name, document)
                    ELSE [ok |-> FALSE, err |-> r.err, idx |-> idx]
           ELSE InsertIntoIndexes(idx, i + 1, name, document)

\* updateIndexesOnInsert: every index whose key starts with `${name}.`, in
\* the order of the indexes Map; an exception leaves the earlier ones changed.
updateIndexesOnInsert(idx, name, document) == InsertIntoIndexes(idx, 1, name, document)

RECURSIVE UpdateInIndexes(_, _, _, _, _)
UpdateInIndexes(idx, i, name, oldDoc, newDoc) ==
  IF i > Len(idx) THEN [ok |-> TRUE, err |-> "", idx |-> idx]
  ELSE IF ~indexKeyStartsWith(idx[i], name) THEN UpdateInIndexes(idx, i + 1, name, oldDoc, newDoc)
  ELSE LET oldValue == getFieldValue(oldDoc, fieldOfKey(idx[i]))
           newValue == getFieldValue(newDoc, fieldOfKey(idx[i]))
       IN  IF StrictEq(oldValue, newValue)
           THEN UpdateInIndexes(idx, i + 1, name, oldDoc, newDoc)
           ELSE LET r == removeFromIndex(idx[i], oldValue, oldDoc["_id"])
                IN  IF ~r.ok THEN [ok |-> FALSE, err |-> r.err, idx |-> idx]
                    ELSE IF newValue # Undef \/ ~idx[i].sparse
                    THEN LET a == addToIndex(r.index, newValue, newDoc["_id"])
                         IN  IF a.ok
                             THEN UpdateInIndexes([idx EXCEPT ![i] = a.index], i + 1,
                                                  name, oldDoc, newDoc)
                             ELSE [ok |-> FALSE, err |-> a.err,
                                   idx |-> [idx EXCEPT ![i] = r.index]]
                    ELSE UpdateInIndexes([idx EXCEPT ![i] = r.index], i + 1,
                                         name, oldDoc, newDoc)

updateIndexesOnUpdate(idx, name, oldDoc, newDoc) == UpdateInIndexes(idx, 1, name, oldDoc, newDoc)

RECURSIVE DeleteFromIndexes(_, _, _, _)
DeleteFromIndexes(idx, i, name, document) ==
  IF i > Len(idx) THEN [ok |-> TRUE, err |-> "", idx |-> idx]
  ELSE IF ~indexKeyStartsWith(idx[i], name) THEN DeleteFromIndexes(idx, i + 1, name, document)
  ELSE LET r == removeFromIndex(idx[i], getFieldValue(document, fieldOfKey(idx[i])),
                                document["_id"])
       IN  IF r.ok
           THEN DeleteFromIndexes([idx EXCEPT ![i] = r.index], i + 1, name, document)
           ELSE [ok |-> FALSE, err |-> r.err, idx |-> idx]

updateIndexesOnDelete(idx, name, document) == DeleteFromIndexes(idx, 1, name, document)

\* createIndex's loop over the current documents, on the new index
RECURSIVE BuildIndex(_, _, _, _)
BuildIndex(index, documents, i, field) ==
  IF i > Len(documents) THEN [ok |-> TRUE, err |-> "", index |-> index]
  ELSE LET value == getFieldValue(documents[i], field)
       IN  IF value # Undef \/ ~index.sparse
           THEN LET r == addToIndex(index, value, documents[i]["_id"])
                IN  IF r.ok THEN BuildIndex(r.index, documents, i + 1, field) ELSE r
           ELSE BuildIndex(index, documents, i + 1, field)

\* checkUniqueConstraints(name, document, schema) against the documents that
\* findOne reads: the first stored document whose decrypted field equals the
\* (already processed) value, if it is another document.
checkUniqueConstraints(documents, document, schema) ==
  \A f \in SchemaFields(schema) :
     (schema[f].unique /\ document[f] # Undef) =>
        LET found == findIn(documents, {[f |-> f, v |-> document[f]]}, schema)
        IN  Len(found) = 0 \/ found[1]["_id"] = document["_id"]

\* does checkUniqueConstraints call findOne for this document?
ChecksUnique(document, schema) ==
  \E f \in SchemaFields(schema) : schema[f].unique /\ document[f] # Undef

\* -------------------------------------------------------------- storage
NoColl == [exists |-> FALSE, schema |-> "", documents |-> <<>>]

JsonDoc(document) == [f \in AllFields |-> JsonValue(document[f])]

JsonDocs(documents) == [i \in 1..Len(documents) |-> JsonDoc(documents[i])]

\* serializeData, then JSON.stringify ... JSON.parse (parseVDBFile): what a
\* reader of the file gets for the storage state (stc, sti).
serializeData(stc, sti) ==
  [collections |-> [nm \in DOMAIN stc |-> [stc[nm] EXCEPT !.documents = JsonDocs(@)]],
   indexes |-> sti]

\* Map.set on the indexes Map, kept as a sequence in insertion order
IndexSet(idx, index) ==
  IF IndexHas(idx, index.name, index.field)
  THEN [i \in 1..Len(idx) |->
          IF idx[i].name = index.name /\ idx[i].field = index.field THEN index ELSE idx[i]]
  ELSE Append(idx, index)

IndexDelete(idx, name, field) ==
  SelectSeq(idx, LAMBDA x : ~(x.name = name /\ x.field = field))

\* VDBStorage.deleteCollection's loop: every index whose key starts with `${name}.`
DeleteIndexesOf(idx, name) == SelectSeq(idx, LAMBDA x : ~indexKeyStartsWith(x, name))

\* ---------------------------------------------------------------- state
VARIABLES
  collections,     \* VerusDB.collections: name -> {schema, documents}
  indexes,         \* VerusDB.indexes, in insertion order
  stCollections,   \* VDBStorage.collections: what setCollection was last given
  stIndexes,       \* VDBStorage.indexes: what setIndex was last given
  file,            \* the decoded content of the database file
  ivNext,          \* the next unused initialization vector
  clock,           \* Date.now()
  last,            \* the outcome of the last call that settled
  residue,         \* history: what rejected calls left in the document maps
  calls,           \* history: the number of calls issued so far
  serial,          \* history: the outcome of the calls run one at a time, as issued
  tasks,           \* ConcSpec: the calls in flight
  saveInProgress,  \* VDBStorage._saveInProgress
  saveQueue,       \* VDBStorage._saveQueue
  saving,          \* the request and image of the _performSave under way
  immediate,       \* a setImmediate(_processSaveQueue) is pending
  temp,            \* SaveSpec: the file `${filePath}.tmp`
  fileWhole,       \* SaveSpec: the database file holds a whole image
  running,         \* SaveSpec: the _performSave executions under way
  settled,         \* SaveSpec: the requests settled so far, in order
  container,       \* the header and data section of the database file
  isInitialized,   \* VerusDB.isInitialized of the instance in use
  returned,        \* the last find, update or delete called and what it returned
  target,          \* ImportSpec: the instance that imported what this one exported
  backupFile,      \* BackupSpec: the file at backupPath
  operationLog,    \* VDBStorage.operationLog: the timestamps of its entries, oldest first
  logFile,         \* the operationLog of the image in the database file
  logSaves,        \* LogSpec: the saveToFile requests not yet settled, oldest first
  keyData,         \* VDBStorage.encryptionKey, named by the salt it was derived with, and .salt
  fileKey          \* whether the database file exists, the salt in its header, the key of its data

engineVars == <<collections, indexes, stCollections, stIndexes, file, ivNext, clock>>
historyVars == <<last, residue, calls, serial>>
fsVars == <<temp, fileWhole, running, settled>>
logVars == <<operationLog, logFile, logSaves, keyData, fileKey>>
openVars == <<container, isInitialized, returned, target, backupFile, logVars>>
concVars == <<tasks, saveInProgress, saveQueue, saving, immediate, fsVars, openVars>>
vars == <<engineVars, historyVars, concVars>>

Now == DateV(clock)

\* saving: the request the _performSave under way (or the last one) resolves,
\* the image it serialized, whether the request had to wait in the queue, and
\* whether the call it fulfilled had changed anything
NoSave == [task |-> 0, image |-> serializeData([nm \in Names |-> NoColl], <<>>),
           queued |-> FALSE, effect |-> FALSE]

Passphrases == {"p", "q"}

\* buildFileBuffer (part_003 265-300) around the image encrypted under the key
\* derived from the passphrase and the salt: the magic, the version, the key
\* of the data section, and whether the ciphertext region is still the one
\* whose SHA-256 digest the file stores.
buildFileBuffer(passphrase) ==
  [magic |-> "VDB1", version |-> 1, key |-> passphrase, digestOk |-> TRUE]

\* a check of the digest that accepts every ciphertext
verifyChecksumSkipped(c) == TRUE

verifyChecksum(c) == c.digestOk

\* a decryption that succeeds under every key
decryptWithAnyKey(c, passphrase) == TRUE

\* decrypt, gunzip and JSON.parse of the data section succeed under the key
\* it was encrypted with; under another key the padding, the gzip header or
\* its CRC is wrong
decrypt(c, passphrase) == passphrase = c.key

parseVDBFile(c, passphrase) ==
  IF c.magic # "VDB1" THEN [ok |-> FALSE, err |-> "Invalid VDB file format"]
  ELSE IF c.version # 1 THEN [ok |-> FALSE, err |-> "Unsupported VDB version"]
  ELSE IF ~verifyChecksum(c) THEN [ok |-> FALSE, err |-> "VDB file integrity check failed"]
  ELSE IF ~decrypt(c, passphrase) THEN [ok |-> FALSE, err |-> "Decryption failed"]
  ELSE [ok |-> TRUE, err |-> ""]

\* no file at `${filePath}.tmp`
NoTemp == [exists |-> FALSE, whole |-> FALSE,
           image |-> serializeData([nm \in Names |-> NoColl], <<>>)]

\* new VerusDB(...) followed by init() on a path with no file: initialize()
\* derives the key and saves the empty image.
\* no find, update or delete was called yet
NoFind == [name |-> "", query |-> {}, sort |-> <<>>, ok |-> TRUE, docs |-> <<>>,
           matchedCount |-> 0, modifiedCount |-> 0, deletedCount |-> 0]

\* no file at backupPath
NoBackup == [exists |-> FALSE, whole |-> FALSE, container |-> buildFileBuffer("p"),
             image |-> serializeData([nm \in Names |-> NoColl], <<>>)]

\* no import was made yet
NoImport == [done |-> FALSE, ok |-> TRUE, collections |-> [nm \in Names |-> NoColl]]

Init ==
  /\ collections = [nm \in Names |-> NoColl]
  /\ indexes = <<>>
  /\ stCollections = [nm \in Names |-> NoColl]
  /\ stIndexes = <<>>
  /\ file = serializeData([nm \in Names |-> NoColl], <<>>)
  /\ ivNext = 1
  /\ clock = 0
  /\ last = [ok |-> TRUE, err |-> ""]
  /\ residue = {}
  /\ calls = 0
  /\ serial = [collections |-> [nm \in Names |-> NoColl], indexes |-> <<>>,
               overlap |-> FALSE]
  /\ tasks = <<>>
  /\ saveInProgress = FALSE
  /\ saveQueue = <<>>
  /\ saving = NoSave
  /\ immediate = FALSE
  /\ temp = NoTemp
  /\ fileWhole = TRUE
  /\ running = {}
  /\ settled = <<>>
  /\ container = buildFileBuffer("p")
  /\ isInitialized = TRUE
  /\ returned = NoFind
  /\ target = NoImport
  /\ backupFile = NoBackup
  /\ operationLog = <<>>
  /\ logFile = <<>>
  /\ keyData = [key |-> 1, salt |-> 1]
  /\ fileKey = [exists |-> TRUE, salt |-> 1, key |-> 1]
  /\ logSaves = <<>>

\* getStats (VerusDB.js 450-461).  collection.indexes is the object that
\* createCollection makes empty (VerusDB.js 160) and loadCollections reads
\* back (107); createIndex and dropIndex write this.indexes and never it.
getStats(colls, name) ==
  LET collectionIndexes == {}
  IN  [name |-> name, documentCount |-> Len(colls[name].documents),
       indexes |-> Cardinality(collectionIndexes), schema |-> colls[name].schema]

\* ---------------------------------------------------------------- inputs
IndexFieldOf(sid) ==
  IF sid = "users" THEN "email" ELSE IF sid = "secret" THEN "ssn"
  ELSE IF sid = "tagged" THEN "tags" ELSE "n"

\* the documents, filters and updates a caller passes to a collection
\* created with schema sid (one of them of the wrong type)
InsertDocs(sid) ==
  IF sid = "users"
  THEN {[NoDoc EXCEPT !["_id"] = i, !["email"] = e] :
           i \in Ids \cup {Undef}, e \in Emails \cup {Undef, Num(0)}}
  ELSE IF sid = "secret"
  THEN {[NoDoc EXCEPT !["_id"] = i, !["ssn"] = Str("s")] : i \in Ids \cup {Undef}}
  ELSE IF sid = "tagged"
  THEN {[NoDoc EXCEPT !["tags"] = Arr(1)]}
  ELSE {[NoDoc EXCEPT !["_id"] = i, !["n"] = Num(0)] : i \in Ids \cup {Undef}}

Queries(sid) ==
  IF sid = "users" THEN {{}} \cup {{[f |-> "email", v |-> e]} : e \in Emails}
  ELSE IF sid = "secret" THEN {{}, {[f |-> "ssn", v |-> Str("s")]}}
  ELSE {{}}

Updates(sid) ==
  IF sid = "users"
  THEN {[op |-> "$set", field |-> "email", value |-> e] : e \in {Str("x"), Num(0)}}
  ELSE IF sid = "secret" THEN {[op |-> "$set", field |-> "ssn", value |-> Str("s")]}
  ELSE IF sid = "tagged"
  THEN {[op |-> o, field |-> "tags", value |-> Str("b")] : o \in {"$push", "$pull"}}
  ELSE {[op |-> "$inc", field |-> "n", value |-> Num(1)],
        [op |-> "$set", field |-> "createdAt", value |-> DateV(1)]}

\* the ids generateId() can return: none that the instance has handed out
FreshIds ==
  {i \in Ids : \A nm \in DOMAIN collections : ~MapHas(collections[nm].documents, i)}

\* ------------------------------------------------- the handlers, as code
Lookup(documents, id) ==
  IF MapHas(documents, id)
  THEN documents[CHOOSE i \in 1..Len(documents) : documents[i]["_id"] = id]
  ELSE NoDoc

\* insert (VerusDB.js 216-240) up to, not including, saveCollection:
\* [ok, err, documents, idx, iv, id]
insertBody(documents, idx, sid, name, document, gid, iv, now) ==
  LET schema == SchemaOf(sid)
      v == validateDocument(document, schema, gid, now)
      processed == processDocumentForStorage(v.doc, schema, iv)
      iv2 == IF v.ok /\ Encrypts(v.doc, schema) THEN iv + 1 ELSE iv
      stored == MapSet(documents, processed["_id"], processed)
      r == updateIndexesOnInsert(idx, name, processed)
  IN  IF ~v.ok
      THEN [ok |-> FALSE, err |-> v.err, documents |-> documents, idx |-> idx, iv |-> iv,
            id |-> Undef]
      ELSE IF ~checkUniqueConstraints(documents, processed, schema)
      THEN [ok |-> FALSE, err |-> "Duplicate", documents |-> documents, idx |-> idx,
            iv |-> iv2, id |-> processed["_id"]]
      ELSE [ok |-> r.ok, err |-> r.err, documents |-> stored, idx |-> r.idx, iv |-> iv2,
            id |-> processed["_id"]]

\* the documents the loops of update and delete reach before
\* `if (!updateMany && modifiedCount > 0) break`; multi is options.multi !== false
loopOverAll(todo, multi) == todo

loopOver(todo, multi) == IF multi \/ todo = <<>> THEN todo ELSE <<todo[1]>>

\* the loop of update (VerusDB.js 317-336) over the matched documents
RECURSIVE updateLoop(_, _, _, _, _, _, _, _, _)
updateLoop(todo, i, documents, idx, sid, name, update, iv, now) ==
  IF i > Len(todo)
  THEN [ok |-> TRUE, err |-> "", documents |-> documents, idx |-> idx, iv |-> iv]
  ELSE LET schema == SchemaOf(sid)
           doc == todo[i]
           originalDoc == processDocumentFromStorage(doc, schema)
           updatedDoc == applyUpdate(originalDoc, update, now)
           v == validateDocument(updatedDoc, schema, Undef, now)
           processed == processDocumentForStorage(v.doc, schema, iv)
           iv2 == IF v.ok /\ Encrypts(v.doc, schema) THEN iv + 1 ELSE iv
           oldDoc == pushInPlace(doc, update)
           pushed == MapSet(documents, doc["_id"], oldDoc)
           stored == MapSet(pushed, doc["_id"], processed)
           r == updateIndexesOnUpdate(idx, name, oldDoc, processed)
       IN  IF ~v.ok
           THEN [ok |-> FALSE, err |-> v.err, documents |-> pushed, idx |-> idx, iv |-> iv]
           ELSE IF ~r.ok
           THEN [ok |-> FALSE, err |-> r.err, documents |-> stored, idx |-> r.idx, iv |-> iv2]
           ELSE updateLoop(todo, i + 1, stored, r.idx, sid, name, update, iv2, now)

\* the loop of delete (VerusDB.js 370-380)
RECURSIVE deleteLoop(_, _, _, _, _)
deleteLoop(todo, i, documents, idx, name) ==
  IF i > Len(todo)
  THEN [ok |-> TRUE, err |-> "", documents |-> documents, idx |-> idx]
  ELSE LET removed == MapDelete(documents, todo[i]["_id"])
           r == updateIndexesOnDelete(idx, name, todo[i])
       IN  IF ~r.ok
           THEN [ok |-> FALSE, err |-> r.err, documents |-> removed, idx |-> r.idx]
           ELSE deleteLoop(todo, i + 1, removed, r.idx, name)

\* createIndex (VerusDB.js 395-423) up to the registration of the index
createIndexBody(documents, idx, name, field, unique, sparse) ==
  LET index == [name |-> name, field |-> field, unique |-> unique, sparse |-> sparse,
                isMap |-> TRUE, data |-> {}]
  IN  IF IndexHas(idx, name, field)
      THEN [ok |-> FALSE, err |-> "IndexExists", index |-> index]
      ELSE BuildIndex(index, documents, 1, field)

\* ------------------------------------------------------------- history
Outcome(ok, err) ==
  /\ last' = [ok |-> ok, err |-> err]
  /\ calls' = calls + 1

Settled(ok, err) == Outcome(ok, err) /\ serial' = serial

\* what a rejected call changed in a document map and the file does not hold
LeftBehind(name, before, after) ==
  LET changed == {id \in Ids : Lookup(before, id) # Lookup(after, id)}
  IN  {r \in residue : ~(r.name = name /\ r.id \in changed)}
      \cup {[name |-> name, id |-> id, img |-> JsonDoc(Lookup(after, id))] :
              id \in {c \in changed :
                        JsonDoc(Lookup(after, c)) # Lookup(file.collections[name].documents, c)}}

\* a fulfilled call that wrote these ids supersedes what was left behind
Superseded(name, written) == {r \in residue : ~(r.name = name /\ r.id \in written)}

IdsOf(documents) == {documents[i]["_id"] : i \in 1..Len(documents)}

\* ------------------------------------------- Spec: one call at a time
\* Each action is a whole call, from its first line to the settling of the
\* promise it returned, the save included (no other call is in flight, so
\* saveToFile starts _performSave at once and the file is written).
Idle ==
  isInitialized /\ tasks = <<>> /\ ~saveInProgress /\ saveQueue = <<>> /\ calls < MaxCalls

saveCollection(stc, name, coll) == [stc EXCEPT ![name] = coll]

CreateCollection(name, sid, withIndex) ==
  /\ Idle
  /\ LET coll == [exists |-> TRUE, schema |-> sid, documents |-> <<>>]
         field == IndexFieldOf(sid)
         b == createIndexBody(<<>>, indexes, name, field, FALSE, FALSE)
         created == ~collections[name].exists
         ok == created /\ (withIndex => b.ok)
     IN  /\ collections' = IF created THEN [collections EXCEPT ![name] = coll] ELSE collections
         /\ stCollections' = IF created THEN saveCollection(stCollections, name, coll)
                             ELSE stCollections
         /\ indexes' = IF ok /\ withIndex THEN Append(indexes, b.index) ELSE indexes
         /\ stIndexes' = IF ok /\ withIndex THEN IndexSet(stIndexes, serializeIndex(b.index))
                         ELSE stIndexes
         /\ file' = IF created THEN serializeData(stCollections', stIndexes') ELSE file
         /\ Settled(ok,
                    IF ~created THEN "CollectionExists" ELSE IF ok THEN "" ELSE b.err)
         /\ residue' = residue
  /\ UNCHANGED <<ivNext, clock, concVars>>

DropCollection(name) ==
  /\ Idle
  /\ LET ok == collections[name].exists
     IN  /\ collections' = [collections EXCEPT ![name] = NoColl]
         /\ stCollections' = IF ok THEN [stCollections EXCEPT ![name] = NoColl]
                             ELSE stCollections
         /\ stIndexes' = IF ok THEN DeleteIndexesOf(stIndexes, name) ELSE stIndexes
         /\ file' = IF ok THEN serializeData(stCollections', stIndexes') ELSE file
         /\ Settled(ok, IF ok THEN "" ELSE "CollectionError")
         /\ residue' = IF ok THEN {r \in residue : r.name # name} ELSE residue
  /\ UNCHANGED <<indexes, ivNext, clock, concVars>>

Insert(name, document, gid) ==
  /\ Idle
  /\ LET coll == collections[name]
         o == insertBody(coll.documents, indexes, coll.schema, name, document, gid,
                         ivNext, Now)
     IN  IF ~coll.exists
         THEN /\ Settled(FALSE, "CollectionError")
              /\ UNCHANGED <<collections, indexes, stCollections, file, ivNext, residue>>
         ELSE /\ o.iv <= MaxIv + 1
              /\ collections' = [collections EXCEPT ![name].documents = o.documents]
              /\ indexes' = o.idx
              /\ ivNext' = o.iv
              /\ stCollections' = IF o.ok
                                  THEN saveCollection(stCollections, name, collections'[name])
                                  ELSE stCollections
              /\ file' = IF o.ok THEN serializeData(stCollections', stIndexes) ELSE file
              /\ Settled(o.ok, o.err)
              /\ residue' = IF o.ok THEN Superseded(name, {o.id})
                            ELSE LeftBehind(name, coll.documents, o.documents)
  /\ UNCHANGED <<stIndexes, clock, concVars>>

Update(name, filter, update, multi) ==
  /\ Idle
  /\ LET coll == collections[name]
         documentsToUpdate == filterDocuments(coll.documents, filter, SchemaOf(coll.schema))
         todo == loopOver(documentsToUpdate, multi)
         o == updateLoop(todo, 1, coll.documents, indexes, coll.schema, name, update,
                         ivNext, Now)
     IN  IF ~coll.exists
         THEN /\ Settled(FALSE, "CollectionError")
              /\ returned' = [NoFind EXCEPT !.name = name, !.query = filter, !.ok = FALSE]
              /\ UNCHANGED <<collections, indexes, stCollections, file, ivNext, residue>>
         ELSE /\ o.iv <= MaxIv + 1
              /\ returned' = [NoFind EXCEPT !.name = name, !.query = filter, !.ok = o.ok,
                                            !.matchedCount =
                                               IF o.ok THEN Len(documentsToUpdate) ELSE 0,
                                            !.modifiedCount = IF o.ok THEN Len(todo) ELSE 0]
              /\ \A d \in DocSet(o.documents) : d["n"].n <= MaxN
              /\ collections' = [collections EXCEPT ![name].documents = o.documents]
              /\ indexes' = o.idx
              /\ ivNext' = o.iv
              /\ stCollections' = IF o.ok /\ Len(todo) > 0
                                  THEN saveCollection(stCollections, name, collections'[name])
                                  ELSE stCollections
              /\ file' = IF o.ok /\ Len(todo) > 0
                         THEN serializeData(stCollections', stIndexes) ELSE file
              /\ Settled(o.ok, o.err)
              /\ residue' = IF o.ok THEN Superseded(name, IdsOf(todo))
                            ELSE LeftBehind(name, coll.documents, o.documents)
  /\ UNCHANGED <<stIndexes, clock, tasks, saveInProgress, saveQueue, saving, immediate,
                 fsVars, container, isInitialized, target, backupFile, logVars>>

Delete(name, filter, multi) ==
  /\ Idle
  /\ LET coll == collections[name]
         documentsToDelete == filterDocuments(coll.documents, filter, SchemaOf(coll.schema))
         todo == loopOver(documentsToDelete, multi)
         o == deleteLoop(todo, 1, coll.documents, indexes, name)
     IN  IF ~coll.exists
         THEN /\ Settled(FALSE, "CollectionError")
              /\ returned' = [NoFind EXCEPT !.name = name, !.query = filter, !.ok = FALSE]
              /\ UNCHANGED <<collections, indexes, stCollections, file, residue>>
         ELSE /\ returned' = [NoFind EXCEPT !.name = name, !.query = filter, !.ok = o.ok,
                                            !.deletedCount = IF o.ok THEN Len(todo) ELSE 0]
              /\ collections' = [collections EXCEPT ![name].documents = o.documents]
              /\ indexes' = o.idx
              /\ stCollections' = IF o.ok /\ Len(todo) > 0
                                  THEN saveCollection(stCollections, name, collections'[name])
                                  ELSE stCollections
              /\ file' = IF o.ok /\ Len(todo) > 0
                         THEN serializeData(stCollections', stIndexes) ELSE file
              /\ Settled(o.ok, o.err)
              /\ residue' = IF o.ok THEN Superseded(name, IdsOf(todo))
                            ELSE LeftBehind(name, coll.documents, o.documents)
  /\ UNCHANGED <<stIndexes, ivNext, clock, tasks, saveInProgress, saveQueue, saving, immediate,
                 fsVars, container, isInitialized, target, backupFile, logVars>>

CreateIndex(name, unique, sparse) ==
  /\ Idle
  /\ LET coll == collections[name]
         field == IndexFieldOf(coll.schema)
         b == createIndexBody(coll.documents, indexes, name, field, unique, sparse)
         ok == coll.exists /\ b.ok
     IN  /\ indexes' = IF ok THEN Append(indexes, b.index) ELSE indexes
         /\ stIndexes' = IF ok THEN IndexSet(stIndexes, serializeIndex(b.index)) ELSE stIndexes
         /\ file' = IF ok THEN serializeData(stCollections, stIndexes') ELSE file
         /\ Settled(ok,
                    IF ~coll.exists THEN "CollectionError" ELSE b.err)
  /\ UNCHANGED <<collections, stCollections, ivNext, clock, residue, concVars>>

DropIndex(name, field) ==
  /\ Idle
  /\ LET ok == IndexHas(indexes, name, field)
     IN  /\ indexes' = IndexDelete(indexes, name, field)
         /\ stIndexes' = IF ok THEN IndexDelete(stIndexes, name, field) ELSE stIndexes
         /\ file' = IF ok THEN serializeData(stCollections, stIndexes') ELSE file
         /\ Settled(ok, IF ok THEN "" ELSE "NoIndex")
  /\ UNCHANGED <<collections, stCollections, ivNext, clock, residue, concVars>>

\* The instance is abandoned and a new one is opened on the same file with
\* the same passphrase: loadFromFile/parseVDBFile, then loadCollections.
Reopen ==
  /\ Idle
  /\ stCollections' = file.collections
  /\ stIndexes' = file.indexes
  /\ collections' = file.collections
  /\ indexes' = file.indexes
  /\ Settled(TRUE, "")
  /\ residue' = {}
  /\ UNCHANGED <<file, ivNext, clock, concVars>>

Next ==
  \/ \E nm \in Names, sid \in SchemaIds, wi \in BOOLEAN : CreateCollection(nm, sid, wi)
  \/ \E nm \in Names : DropCollection(nm)
  \/ \E nm \in Names : \E d \in InsertDocs(collections[nm].schema) :
        \E gid \in (IF d["_id"] = Undef THEN FreshIds ELSE {Undef}) : Insert(nm, d, gid)
  \/ \E nm \in Names : \E q \in Queries(collections[nm].schema) :
        \E u \in Updates(collections[nm].schema), multi \in BOOLEAN : Update(nm, q, u, multi)
  \/ \E nm \in Names : \E q \in Queries(collections[nm].schema), multi \in BOOLEAN :
        Delete(nm, q, multi)
  \/ \E nm \in Names, u \in BOOLEAN, sp \in BOOLEAN : CreateIndex(nm, u, sp)
  \/ \E nm \in Names, f \in UserFields : DropIndex(nm, f)
  \/ Reopen

Spec == Init /\ [][Next]_vars

\* ---------------------------------------- HandedSpec: Spec and its callers
\* The caller of find(name, {}) pushes an element onto the array in the i-th
\* document returned.  processDocumentFromStorage returns { ...document }
\* (VerusDB.js 559-569): a new object whose arrays are those of the stored
\* document.  insert returns such a copy as well, and stores the arrays of
\* the object it was given (Schema.js 109-112).
mutateReturned(name, i) ==
  /\ Idle
  /\ collections[name].exists
  /\ i \in 1..Len(collections[name].documents)
  /\ collections[name].documents[i]["tags"].t = "array"
  /\ collections[name].documents[i]["tags"].n <= MaxTags
  /\ collections' = [collections EXCEPT ![name].documents[i]["tags"] = Arr(@.n + 1)]
  /\ UNCHANGED <<indexes, stCollections, stIndexes, file, ivNext, clock, historyVars, concVars>>

HandedNext == Next \/ \E nm \in Names, i \in 1..MaxIds : mutateReturned(nm, i)

HandedSpec == Init /\ [][HandedNext]_vars

\* ------------------------------------- ConcSpec: calls in flight together
\* A call is a task: it runs from one await to the next in one step, and the
\* steps of the calls in flight interleave.  The first step of a call (what
\* runs after `await this.init()`) is taken when the call is issued.  The
\* callers pass explicit _ids; the collections have no encrypted field.
ConcSchemaIds == {"users", "counter"}

ConcInsertDocs(sid) == {d \in InsertDocs(sid) : d["_id"] # Undef}

ConcUpdates(sid) ==
  IF sid = "counter" THEN {[op |-> "$inc", field |-> "n", value |-> Num(1)]} ELSE {}

NoUpdate == [op |-> "", field |-> "", value |-> Undef]

\* wrote: the documents the task has put in (or removed from, img = NoDoc) the
\* live document map and that are still there as it left them; expect: what a
\* createCollection ("exists") or dropCollection ("gone") has done to the
\* collection and no later call has undone
NewTask(no, kind, pc, name, sid) ==
  [no |-> no, kind |-> kind, pc |-> pc, name |-> name, sid |-> sid, wi |-> FALSE,
   doc |-> NoDoc, todo |-> <<>>, i |-> 1, upd |-> NoUpdate, orphan |-> FALSE,
   wrote |-> {}, expect |-> "none"]

NextNo == calls + Len(tasks) + 1

CanIssue == calls + Len(tasks) < MaxConcCalls /\ Len(tasks) < MaxTasks

Without(ts, i) == [j \in 1..(Len(ts) - 1) |-> IF j < i THEN ts[j] ELSE ts[j + 1]]

\* the tasks keep in wrote what the document map of name still holds
Retain(ts, name, documents) ==
  [j \in 1..Len(ts) |->
     IF ts[j].name = name
     THEN [ts[j] EXCEPT !.wrote = {w \in @ : JsonDoc(Lookup(documents, w.id)) = w.img}]
     ELSE ts[j]]

\* dropCollection(name): the calls in flight that hold the collection object
\* go on with an object the engine no longer has
Orphaned(ts, name) ==
  [j \in 1..Len(ts) |->
     IF ts[j].name = name
     THEN [ts[j] EXCEPT !.orphan = (ts[j].kind \in {"insert", "update", "delete"}),
                        !.wrote = {}, !.expect = "none"]
     ELSE ts[j]]

Recreated(ts, name) ==
  [j \in 1..Len(ts) |->
     IF ts[j].name = name /\ ts[j].expect = "gone" THEN [ts[j] EXCEPT !.expect = "none"]
     ELSE ts[j]]

StructuralInFlight == \E j \in 1..Len(tasks) : tasks[j].kind \in {"create", "drop"}

\* a save that writes the image the save before it serialized: one that
\* started before the change it is asked to write
performSaveOfEarlierImage(no, stc, sti, queued) ==
  [task |-> no, image |-> saving.image, queued |-> queued, effect |-> FALSE]

\* _performSave up to its first await: the image is serialized from what the
\* storage holds now
performSave(no, stc, sti, queued) ==
  [task |-> no, image |-> serializeData(stc, sti), queued |-> queued, effect |-> FALSE]

\* saveToFile: push the request and call _processSaveQueue, which starts the
\* save of the head of the queue unless one is under way
saveToFile(no, stc, sti) ==
  LET q == Append(saveQueue, no)
  IN  IF saveInProgress
      THEN /\ saveQueue' = q
           /\ UNCHANGED <<saveInProgress, saving>>
      ELSE /\ saveQueue' = Tail(q)
           /\ saveInProgress' = TRUE
           /\ saving' = performSave(Head(q), stc, sti, Head(q) # no)

\* the calls run one at a time on the state s = [collections, indexes]
SerialCreate(s, nm, sid, wi) ==
  LET b == createIndexBody(<<>>, s.indexes, nm, IndexFieldOf(sid), FALSE, FALSE)
      created == ~s.collections[nm].exists
  IN  [s EXCEPT !.collections[nm] =
                   IF created THEN [exists |-> TRUE, schema |-> sid, documents |-> <<>>]
                   ELSE @,
                !.indexes = IF created /\ wi /\ b.ok THEN Append(@, b.index) ELSE @]

SerialDrop(s, nm) == [s EXCEPT !.collections[nm] = NoColl]

SerialInsert(s, nm, d) ==
  LET coll == s.collections[nm]
      o == insertBody(coll.documents, s.indexes, coll.schema, nm, d, Undef, ivNext, Now)
  IN  IF ~coll.exists THEN s
      ELSE [s EXCEPT !.collections[nm].documents = o.documents, !.indexes = o.idx]

SerialUpdate(s, nm, q, u) ==
  LET coll == s.collections[nm]
      todo == filterDocuments(coll.documents, q, SchemaOf(coll.schema))
      o == updateLoop(todo, 1, coll.documents, s.indexes, coll.schema, nm, u, ivNext, Now)
  IN  IF ~coll.exists THEN s
      ELSE [s EXCEPT !.collections[nm].documents = o.documents, !.indexes = o.idx]

SerialDelete(s, nm, q) ==
  LET coll == s.collections[nm]
      todo == filterDocuments(coll.documents, q, SchemaOf(coll.schema))
      o == deleteLoop(todo, 1, coll.documents, s.indexes, nm)
  IN  IF ~coll.exists THEN s
      ELSE [s EXCEPT !.collections[nm].documents = o.documents, !.indexes = o.idx]

Overlap(s, b) == [s EXCEPT !.overlap = @ \/ b]

\* the task at position i is rejected with err
Reject(ts, i, err) ==
  /\ tasks' = Without(ts, i)
  /\ Outcome(FALSE, err)


\* createCollection (VerusDB.js 138-191) to its first saveToFile
StartCreate(nm, sid, wi) ==
  /\ UNCHANGED <<fsVars, openVars>>
  /\ CanIssue
  /\ serial' = Overlap(SerialCreate(serial, nm, sid, wi), tasks # <<>>)
  /\ IF collections[nm].exists
     THEN /\ Outcome(FALSE, "CollectionExists")
          /\ UNCHANGED <<collections, stCollections, tasks, saveInProgress, saveQueue, saving>>
     ELSE LET coll == [exists |-> TRUE, schema |-> sid, documents |-> <<>>]
              t == [NewTask(NextNo, "create", "wait", nm, sid) EXCEPT
                      !.wi = wi, !.expect = "exists"]
          IN  /\ collections' = [collections EXCEPT ![nm] = coll]
              /\ stCollections' = saveCollection(stCollections, nm, coll)
              /\ tasks' = Append(Recreated(tasks, nm), t)
              /\ saveToFile(t.no, stCollections', stIndexes)
              /\ UNCHANGED <<last, calls>>
  /\ UNCHANGED <<indexes, stIndexes, file, ivNext, clock, residue, immediate>>

\* the createIndex call of createCollection (VerusDB.js 169-173, 395-423)
IndexStep(i) ==
  /\ UNCHANGED <<fsVars, openVars>>
  /\ tasks[i].kind = "create" /\ tasks[i].pc = "index"
  /\ LET t == tasks[i]
         coll == collections[t.name]
         b == createIndexBody(coll.documents, indexes, t.name, IndexFieldOf(t.sid),
                              FALSE, FALSE)
     IN  IF ~coll.exists \/ ~b.ok
         THEN /\ Reject(tasks, i, IF ~coll.exists THEN "CollectionError" ELSE b.err)
              /\ UNCHANGED <<indexes, stIndexes, saveInProgress, saveQueue, saving>>
         ELSE /\ indexes' = Append(indexes, b.index)
              /\ stIndexes' = IndexSet(stIndexes, serializeIndex(b.index))
              /\ tasks' = [tasks EXCEPT ![i].pc = "wait", ![i].wi = FALSE]
              /\ saveToFile(t.no, stCollections, stIndexes')
              /\ UNCHANGED <<last, calls>>
  /\ UNCHANGED <<collections, stCollections, file, ivNext, clock, residue, serial, immediate>>

\* dropCollection (VerusDB.js 198-208) to its saveToFile
StartDrop(nm) ==
  /\ UNCHANGED <<fsVars, openVars>>
  /\ CanIssue
  /\ serial' = Overlap(SerialDrop(serial, nm), tasks # <<>>)
  /\ IF ~collections[nm].exists
     THEN /\ Outcome(FALSE, "CollectionError")
          /\ UNCHANGED <<collections, stCollections, stIndexes, tasks, saveInProgress,
                         saveQueue, saving>>
     ELSE LET t == [NewTask(NextNo, "drop", "wait", nm, "") EXCEPT !.expect = "gone"]
          IN  /\ collections' = [collections EXCEPT ![nm] = NoColl]
              /\ stCollections' = [stCollections EXCEPT ![nm] = NoColl]
              /\ stIndexes' = DeleteIndexesOf(stIndexes, nm)
              /\ tasks' = Append(Orphaned(tasks, nm), t)
              /\ saveToFile(t.no, stCollections', stIndexes')
              /\ UNCHANGED <<last, calls>>
  /\ UNCHANGED <<indexes, file, ivNext, clock, residue, immediate>>

\* insert (VerusDB.js 216-226): getCollection, validateDocument,
\* processDocumentForStorage
StartInsert(nm, d) ==
  /\ UNCHANGED <<fsVars, openVars>>
  /\ CanIssue
  /\ serial' = Overlap(SerialInsert(serial, nm, d), StructuralInFlight)
  /\ LET coll == collections[nm]
         schema == SchemaOf(coll.schema)
         v == validateDocument(d, schema, Undef, Now)
         processed == processDocumentForStorage(v.doc, schema, ivNext)
     IN  IF ~coll.exists \/ ~v.ok
         THEN /\ Outcome(FALSE, IF ~coll.exists THEN "CollectionError" ELSE v.err)
              /\ tasks' = tasks
         ELSE /\ tasks' = Append(tasks, [NewTask(NextNo, "insert", "check", nm, coll.schema)
                                           EXCEPT !.doc = processed])
              /\ UNCHANGED <<last, calls>>
  /\ UNCHANGED <<collections, indexes, stCollections, stIndexes, file, ivNext, clock,
                 residue, saveInProgress, saveQueue, saving, immediate>>

\* insert (VerusDB.js 229): checkUniqueConstraints; findOne looks the
\* collection up by name again and reads the documents it holds now
InsertCheck(i) ==
  /\ UNCHANGED <<fsVars, openVars>>
  /\ tasks[i].kind = "insert" /\ tasks[i].pc = "check"
  /\ LET t == tasks[i]
         coll == collections[t.name]
         schema == SchemaOf(t.sid)
     IN  IF ChecksUnique(t.doc, schema) /\ ~coll.exists
         THEN Reject(tasks, i, "CollectionError")
         ELSE IF ~checkUniqueConstraints(coll.documents, t.doc, schema)
         THEN Reject(tasks, i, "Duplicate")
         ELSE /\ tasks' = [tasks EXCEPT ![i].pc = "store"]
              /\ UNCHANGED <<last, calls>>
  /\ UNCHANGED <<collections, indexes, stCollections, stIndexes, file, ivNext, clock,
                 residue, serial, saveInProgress, saveQueue, saving, immediate>>

\* insert (VerusDB.js 232-235): documents.set on the collection object the
\* call holds, then updateIndexesOnInsert
InsertStore(i) ==
  /\ UNCHANGED <<fsVars, openVars>>
  /\ tasks[i].kind = "insert" /\ tasks[i].pc = "store"
  /\ LET t == tasks[i]
         id == t.doc["_id"]
         documents == collections[t.name].documents
         stored == IF t.orphan THEN documents ELSE MapSet(documents, id, t.doc)
         r == updateIndexesOnInsert(indexes, t.name, t.doc)
         kept == Retain(tasks, t.name, stored)
     IN  /\ collections' = [collections EXCEPT ![t.name].documents = stored]
         /\ indexes' = r.idx
         /\ IF r.ok
            THEN /\ tasks' = [kept EXCEPT ![i].pc = "save",
                                          ![i].wrote = IF t.orphan THEN {}
                                                       ELSE {[id |-> id, img |-> JsonDoc(t.doc)]}]
                 /\ UNCHANGED <<last, calls>>
            ELSE Reject(kept, i, r.err)
  /\ UNCHANGED <<stCollections, stIndexes, file, ivNext, clock, residue, serial,
                 saveInProgress, saveQueue, saving, immediate>>

\* update (VerusDB.js 301-312): the matched documents of a copy of the map
StartUpdate(nm, q, u) ==
  /\ UNCHANGED <<fsVars, openVars>>
  /\ CanIssue
  /\ serial' = Overlap(SerialUpdate(serial, nm, q, u), StructuralInFlight)
  /\ LET coll == collections[nm]
         todo == filterDocuments(coll.documents, q, SchemaOf(coll.schema))
     IN  IF ~coll.exists \/ Len(todo) = 0
         THEN /\ Outcome(coll.exists, IF coll.exists THEN "" ELSE "CollectionError")
              /\ tasks' = tasks
         ELSE /\ tasks' = Append(tasks, [NewTask(NextNo, "update", "loop", nm, coll.schema)
                                           EXCEPT !.todo = todo, !.upd = u])
              /\ UNCHANGED <<last, calls>>
  /\ UNCHANGED <<collections, indexes, stCollections, stIndexes, file, ivNext, clock,
                 residue, saveInProgress, saveQueue, saving, immediate>>

\* one round of the loop of update (VerusDB.js 317-336), on the document as
\* it was when the call copied the map
UpdateStep(i) ==
  /\ UNCHANGED <<fsVars, openVars>>
  /\ tasks[i].kind = "update" /\ tasks[i].pc = "loop"
  /\ LET t == tasks[i]
         id == t.todo[t.i]["_id"]
         documents == collections[t.name].documents
         o == updateLoop(<<t.todo[t.i]>>, 1, documents, indexes, t.sid, t.name, t.upd,
                         ivNext, Now)
         stored == IF t.orphan THEN documents ELSE o.documents
         kept == Retain(tasks, t.name, stored)
     IN  /\ \A d \in DocSet(o.documents) : d["n"].n <= MaxN
         /\ collections' = [collections EXCEPT ![t.name].documents = stored]
         /\ indexes' = o.idx
         /\ IF o.ok
            THEN /\ tasks' = [kept EXCEPT
                                ![i].i = t.i + 1,
                                ![i].pc = IF t.i = Len(t.todo) THEN "save" ELSE "loop",
                                ![i].wrote = IF t.orphan THEN {}
                                             ELSE kept[i].wrote \cup
                                                  {[id |-> id,
                                                    img |-> JsonDoc(Lookup(stored, id))]}]
                 /\ UNCHANGED <<last, calls>>
            ELSE Reject(kept, i, o.err)
  /\ UNCHANGED <<stCollections, stIndexes, file, ivNext, clock, residue, serial,
                 saveInProgress, saveQueue, saving, immediate>>

\* delete (VerusDB.js 354-365)
StartDelete(nm, q) ==
  /\ UNCHANGED <<fsVars, openVars>>
  /\ CanIssue
  /\ serial' = Overlap(SerialDelete(serial, nm, q), StructuralInFlight)
  /\ LET coll == collections[nm]
         todo == filterDocuments(coll.documents, q, SchemaOf(coll.schema))
     IN  IF ~coll.exists \/ Len(todo) = 0
         THEN /\ Outcome(coll.exists, IF coll.exists THEN "" ELSE "CollectionError")
              /\ tasks' = tasks
         ELSE /\ tasks' = Append(tasks, [NewTask(NextNo, "delete", "loop", nm, coll.schema)
                                           EXCEPT !.todo = todo])
              /\ UNCHANGED <<last, calls>>
  /\ UNCHANGED <<collections, indexes, stCollections, stIndexes, file, ivNext, clock,
                 residue, saveInProgress, saveQueue, saving, immediate>>

\* one round of the loop of delete (VerusDB.js 370-380)
DeleteStep(i) ==
  /\ UNCHANGED <<fsVars, openVars>>
  /\ tasks[i].kind = "delete" /\ tasks[i].pc = "loop"
  /\ LET t == tasks[i]
         id == t.todo[t.i]["_id"]
         documents == collections[t.name].documents
         o == deleteLoop(<<t.todo[t.i]>>, 1, documents, indexes, t.name)
         stored == IF t.orphan THEN documents ELSE o.documents
         kept == Retain(tasks, t.name, stored)
     IN  /\ collections' = [collections EXCEPT ![t.name].documents = stored]
         /\ indexes' = o.idx
         /\ IF o.ok
            THEN /\ tasks' = [kept EXCEPT
                                ![i].i = t.i + 1,
                                ![i].pc = IF t.i = Len(t.todo) THEN "save" ELSE "loop",
                                ![i].wrote = IF t.orphan THEN {}
                                             ELSE kept[i].wrote \cup {[id |-> id, img |-> NoDoc]}]
                 /\ UNCHANGED <<last, calls>>
            ELSE Reject(kept, i, o.err)
  /\ UNCHANGED <<stCollections, stIndexes, file, ivNext, clock, residue, serial,
                 saveInProgress, saveQueue, saving, immediate>>

\* saveCollection (VerusDB.js 537-545) at the end of insert, update, delete:
\* the collection is looked up by name, copied into the storage, and a save
\* is requested
TaskSave(i) ==
  /\ UNCHANGED <<fsVars, openVars>>
  /\ tasks[i].pc = "save"
  /\ LET t == tasks[i]
         coll == collections[t.name]
     IN  IF ~coll.exists
         THEN /\ Reject(tasks, i, "TypeError")
              /\ UNCHANGED <<stCollections, saveInProgress, saveQueue, saving>>
         ELSE /\ stCollections' = saveCollection(stCollections, t.name, coll)
              /\ tasks' = [tasks EXCEPT ![i].pc = "wait"]
              /\ saveToFile(t.no, stCollections', stIndexes)
              /\ UNCHANGED <<last, calls>>
  /\ UNCHANGED <<collections, indexes, stIndexes, file, ivNext, clock, residue, serial,
                 immediate>>

\* no call in flight can take a step: the event loop turns to I/O and timers
Drained == \A j \in 1..Len(tasks) : tasks[j].pc = "wait"

\* _performSave returns (part_003 201-243): the file is the image; resolve()
\* lets the waiting call go on; finally (part_003 193-198)
SaveDone ==
  /\ UNCHANGED <<fsVars, openVars>>
  /\ saveInProgress /\ Drained
  /\ file' = saving.image
  /\ saveInProgress' = FALSE
  /\ immediate' = (immediate \/ saveQueue # <<>>)
  /\ LET i == CHOOSE j \in 1..Len(tasks) : tasks[j].no = saving.task
         t == tasks[i]
     IN  IF t.kind = "create" /\ t.wi
         THEN /\ tasks' = [tasks EXCEPT ![i].pc = "index"]
              /\ UNCHANGED <<last, calls, saving>>
         ELSE /\ tasks' = Without(tasks, i)
              /\ Outcome(TRUE, "")
              /\ saving' = [saving EXCEPT !.effect = (t.wrote # {} \/ t.expect # "none")]
  /\ UNCHANGED <<collections, indexes, stCollections, stIndexes, ivNext, clock, residue,
                 serial, saveQueue>>

\* the setImmediate callback of part_003 197: _processSaveQueue
ImmediateFire ==
  /\ UNCHANGED <<fsVars, openVars>>
  /\ immediate /\ Drained
  /\ immediate' = FALSE
  /\ IF ~saveInProgress /\ saveQueue # <<>>
     THEN /\ saveInProgress' = TRUE
          /\ saving' = performSave(Head(saveQueue), stCollections, stIndexes, TRUE)
          /\ saveQueue' = Tail(saveQueue)
     ELSE UNCHANGED <<saveInProgress, saving, saveQueue>>
  /\ UNCHANGED <<engineVars, historyVars, tasks>>

ConcNext ==
  \/ \E nm \in Names, sid \in ConcSchemaIds, wi \in BOOLEAN : StartCreate(nm, sid, wi)
  \/ \E nm \in Names : StartDrop(nm)
  \/ \E nm \in Names : \E d \in ConcInsertDocs(collections[nm].schema) : StartInsert(nm, d)
  \/ \E nm \in Names : \E q \in Queries(collections[nm].schema) :
        \E u \in ConcUpdates(collections[nm].schema) : StartUpdate(nm, q, u)
  \/ \E nm \in Names : \E q \in Queries(collections[nm].schema) : StartDelete(nm, q)
  \/ \E i \in 1..Len(tasks) : IndexStep(i)
  \/ \E i \in 1..Len(tasks) : InsertCheck(i)
  \/ \E i \in 1..Len(tasks) : InsertStore(i)
  \/ \E i \in 1..Len(tasks) : UpdateStep(i)
  \/ \E i \in 1..Len(tasks) : DeleteStep(i)
  \/ \E i \in 1..Len(tasks) : TaskSave(i)
  \/ SaveDone
  \/ ImmediateFire

ConcSpec == Init /\ [][ConcNext]_vars

\* the calls of Spec that were fulfilled, and only those
OkNext == Next /\ last'.ok

OkSpec == Init /\ [][OkNext]_vars

\* ============================================== SaveSpec: the save queue
\* VDBStorage alone (part_003 171-243): its data changes through
\* setCollection, saves are requested at any time, and a save is split at
\* its awaits: the write of the temporary file, the stat, the rename, the
\* clean-up after a failure, and the settlement of the request.
StoredData ==
  {NoColl} \cup {[exists |-> TRUE, schema |-> sid, documents |-> <<>>] : sid \in ConcSchemaIds}

\* the number the next saveToFile request gets: requests are numbered as issued
NextSave == Len(settled) + Cardinality(running) + Len(saveQueue) + 1

saveStillVars ==
  <<collections, indexes, stIndexes, ivNext, clock, historyVars, tasks, saving, openVars>>

\* _performSave up to its first await (part_003 201-206): the image is
\* serialized now; before is what the database file holds at that time
startSave(req) ==
  [req |-> req, pc |-> "write", image |-> serializeData(stCollections, stIndexes),
   before |-> file, threw |-> FALSE]

\* a _processSaveQueue that does not look at _saveInProgress
processSaveQueueUnguarded(queue) ==
  IF queue = <<>>
  THEN /\ saveQueue' = queue
       /\ UNCHANGED <<saveInProgress, running>>
  ELSE /\ saveInProgress' = TRUE
       /\ saveQueue' = Tail(queue)
       /\ running' = running \cup {startSave(Head(queue))}

\* a _processSaveQueue that takes the request pushed last
processSaveQueueNewestFirst(queue) ==
  IF saveInProgress \/ queue = <<>>
  THEN /\ saveQueue' = queue
       /\ UNCHANGED <<saveInProgress, running>>
  ELSE /\ saveInProgress' = TRUE
       /\ saveQueue' = SubSeq(queue, 1, Len(queue) - 1)
       /\ running' = running \cup {startSave(queue[Len(queue)])}

\* _processSaveQueue (part_003 179-189) on the queue as it is when called
processSaveQueue(queue) ==
  IF saveInProgress \/ queue = <<>>
  THEN /\ saveQueue' = queue
       /\ UNCHANGED <<saveInProgress, running>>
  ELSE /\ saveInProgress' = TRUE
       /\ saveQueue' = Tail(queue)
       /\ running' = running \cup {startSave(Head(queue))}

\* the step of a save under way: r is replaced by r at its next await
Step(r, pc, threw) ==
  running' = (running \ {r}) \cup {[r EXCEPT !.pc = pc, !.threw = threw]}

setCollection(name, data) ==
  /\ stCollections[name] # data
  /\ stCollections' = [stCollections EXCEPT ![name] = data]
  /\ UNCHANGED <<file, saveInProgress, saveQueue, immediate, fsVars, saveStillVars>>

\* saveToFile (part_003 171-177)
saveToFileCall ==
  /\ NextSave <= MaxSaves
  /\ processSaveQueue(Append(saveQueue, NextSave))
  /\ UNCHANGED <<stCollections, file, immediate, temp, fileWhole, settled, saveStillVars>>

\* fs.writeFile(tempPath, fileBuffer) (part_003 216): it writes the whole
\* buffer, or fails before creating the file, or fails part-way
writeFile(r, outcome) ==
  /\ r.pc = "write"
  /\ temp' = IF outcome = "none" THEN temp
             ELSE [exists |-> TRUE, whole |-> outcome = "written", image |-> r.image]
  /\ IF outcome = "written" THEN Step(r, "stat", FALSE) ELSE Step(r, "cleanup", TRUE)
  /\ UNCHANGED <<stCollections, file, saveInProgress, saveQueue, immediate, fileWhole,
                 settled, saveStillVars>>

\* fs.stat(tempPath) and the size check (part_003 219-222)
stat(r, ok) ==
  /\ r.pc = "stat"
  /\ IF ok THEN Step(r, "rename", FALSE) ELSE Step(r, "cleanup", TRUE)
  /\ UNCHANGED <<stCollections, file, saveInProgress, saveQueue, immediate, temp, fileWhole,
                 settled, saveStillVars>>

\* fs.rename(tempPath, this.filePath) (part_003 225): all or nothing
rename(r, ok) ==
  /\ r.pc = "rename"
  /\ IF ok
     THEN /\ file' = temp.image
          /\ fileWhole' = temp.whole
          /\ temp' = NoTemp
          /\ Step(r, "resolve", FALSE)
     ELSE /\ Step(r, "cleanup", TRUE)
          /\ UNCHANGED <<file, fileWhole, temp>>
  /\ UNCHANGED <<stCollections, saveInProgress, saveQueue, immediate, settled, saveStillVars>>

\* a clean-up that leaves the temporary file where it is
unlinkSkipped(t) == t

\* fs.unlink(tempPath)
unlink(t) == NoTemp

\* the catch of part_003 228-239: remove the temporary file if it exists
cleanup(r) ==
  /\ r.pc = "cleanup"
  /\ temp' = IF temp.exists THEN unlink(temp) ELSE temp
  /\ Step(r, "reject", TRUE)
  /\ UNCHANGED <<stCollections, file, saveInProgress, saveQueue, immediate, fileWhole,
                 settled, saveStillVars>>

\* a finally that clears the flag and schedules nothing
settleWithoutRestart(r) ==
  /\ r.pc \in {"resolve", "reject"}
  /\ settled' = Append(settled, [req |-> r.req, ok |-> r.pc = "resolve", threw |-> r.threw,
                                 before |-> r.before, image |-> r.image])
  /\ running' = running \ {r}
  /\ saveInProgress' = FALSE
  /\ UNCHANGED <<stCollections, file, saveQueue, immediate, temp, fileWhole, saveStillVars>>

\* resolve() or reject(error), then finally (part_003 189-198)
settle(r) ==
  /\ r.pc \in {"resolve", "reject"}
  /\ settled' = Append(settled, [req |-> r.req, ok |-> r.pc = "resolve", threw |-> r.threw,
                                 before |-> r.before, image |-> r.image])
  /\ running' = running \ {r}
  /\ saveInProgress' = FALSE
  /\ immediate' = (immediate \/ saveQueue # <<>>)
  /\ UNCHANGED <<stCollections, file, saveQueue, temp, fileWhole, saveStillVars>>

\* the callback of setImmediate (part_003 196)
immediateCallback ==
  /\ immediate
  /\ immediate' = FALSE
  /\ processSaveQueue(saveQueue)
  /\ UNCHANGED <<stCollections, file, temp, fileWhole, settled, saveStillVars>>

SaveNext ==
  \/ \E nm \in Names, data \in StoredData : setCollection(nm, data)
  \/ saveToFileCall
  \/ \E r \in running, o \in {"written", "none", "partial"} : writeFile(r, o)
  \/ \E r \in running, ok \in BOOLEAN : stat(r, ok)
  \/ \E r \in running, ok \in BOOLEAN : rename(r, ok)
  \/ \E r \in running : cleanup(r)
  \/ \E r \in running : settle(r)
  \/ immediateCallback

SaveSpec == Init /\ [][SaveNext]_vars

\* every file operation awaited completes, the continuation after an await
\* runs, and the event loop reaches its setImmediate callbacks
FairSaveSpec ==
  /\ SaveSpec
  /\ WF_vars(\E r \in running, o \in {"written", "none", "partial"} : writeFile(r, o))
  /\ WF_vars(\E r \in running, ok \in BOOLEAN : stat(r, ok))
  /\ WF_vars(\E r \in running, ok \in BOOLEAN : rename(r, ok))
  /\ WF_vars(\E r \in running : cleanup(r))
  /\ WF_vars(\E r \in running : settle(r))
  /\ WF_vars(immediateCallback)

\* ================================== OpenSpec: opening the database file
\* The file is damaged while no instance uses it: the instance in use is
\* abandoned.
Damage(kind) ==
  /\ Idle
  /\ container' = IF kind = "magic" THEN [container EXCEPT !.magic = "ZIP!"]
                  ELSE IF kind = "version" THEN [container EXCEPT !.version = 2]
                  ELSE [container EXCEPT !.digestOk = FALSE]
  /\ isInitialized' = FALSE
  /\ UNCHANGED <<engineVars, historyVars, tasks, saveInProgress, saveQueue, saving, immediate,
                 fsVars, returned, target, backupFile, logVars>>

\* new VerusDB({path, encryptionKey}) and init() (VerusDB.js 60-91) on the
\* existing file: initialize -> loadFromFile -> parseVDBFile, which fills the
\* storage only after JSON.parse, then loadCollections.
OpenWith(passphrase) ==
  /\ tasks = <<>> /\ ~saveInProgress /\ saveQueue = <<>> /\ calls < MaxCalls
  /\ LET o == parseVDBFile(container, passphrase)
     IN  /\ stCollections' = IF o.ok THEN file.collections ELSE [nm \in Names |-> NoColl]
         /\ stIndexes' = IF o.ok THEN file.indexes ELSE <<>>
         /\ collections' = stCollections'
         /\ indexes' = stIndexes'
         /\ isInitialized' = o.ok
         /\ Settled(o.ok, o.err)
  /\ residue' = {}
  /\ UNCHANGED <<file, container, ivNext, clock, tasks, saveInProgress, saveQueue, saving,
                 immediate, fsVars, returned, target, backupFile, logVars>>

OpenNext ==
  \/ \E nm \in Names, sid \in SchemaIds, wi \in BOOLEAN : CreateCollection(nm, sid, wi)
  \/ \E nm \in Names : \E d \in InsertDocs(collections[nm].schema) :
        \E gid \in (IF d["_id"] = Undef THEN FreshIds ELSE {Undef}) : Insert(nm, d, gid)
  \/ \E kind \in {"magic", "version", "ciphertext"} : Damage(kind)
  \/ \E passphrase \in Passphrases : OpenWith(passphrase)

OpenSpec == Init /\ [][OpenNext]_vars

\* ------------------------------------------------------------ BackupSpec
\* a copy that serializes the data in memory instead of reading the file
copyFileOfMemory(src, whole, header) ==
  [exists |-> TRUE, whole |-> TRUE, container |-> header,
   image |-> serializeData(stCollections, stIndexes)]

\* fs.copyFile(src, dest): dest holds the bytes of src, header and data
copyFile(src, whole, header) ==
  [exists |-> TRUE, whole |-> whole, container |-> header, image |-> src]

\* backup(backupPath) (part_003 417-419), at any moment of SaveSpec
backup ==
  /\ backupFile' = copyFile(file, fileWhole, container)
  /\ backupFile' # backupFile
  /\ UNCHANGED <<engineVars, historyVars, tasks, saveInProgress, saveQueue, saving, immediate,
                 fsVars, container, isInitialized, returned, target, logVars>>

BackupNext == SaveNext \/ backup

BackupSpec == Init /\ [][BackupNext]_vars

\* ------------------------------------------------------------ ImportSpec
\* export(): per collection the schema, which serializeSchema copies through
\* JSON, and the decrypted documents in map order
export(colls) ==
  [nm \in Names |->
     [colls[nm] EXCEPT !.documents = findIn(colls[nm].documents, {}, SchemaOf(colls[nm].schema))]]

\* the loop of import over the documents of one collection: insert of each
\* into the new collection, which has no index; the first throw ends it
RECURSIVE importDocuments(_, _, _, _, _, _, _)
importDocuments(docs, i, documents, sid, name, iv, now) ==
  IF i > Len(docs) THEN [ok |-> TRUE, documents |-> documents]
  ELSE LET o == insertBody(documents, <<>>, sid, name, docs[i], Undef, iv, now)
       IN  IF ~o.ok THEN [ok |-> FALSE, documents |-> o.documents]
           ELSE importDocuments(docs, i + 1, o.documents, sid, name, o.iv, now)

\* import(data) on a new, empty instance at instant now: createCollection with
\* the exported schema, then the inserts
import(data, now) ==
  LET loop(nm) == importDocuments(data[nm].documents, 1, <<>>, data[nm].schema, nm, 1, now)
  IN  [done |-> TRUE,
       ok |-> \A nm \in Names : data[nm].exists => loop(nm).ok,
       collections |-> [nm \in Names |->
                          IF data[nm].exists
                          THEN [data[nm] EXCEPT !.documents = loop(nm).documents]
                          ELSE NoColl]]

\* const data = await db.export(); await other.import(data), at the instant
\* of the last write to db or later
ExportImport(now) ==
  /\ Idle
  /\ ~target.done
  /\ target' = import(export(collections), now)
  /\ calls' = calls + 1
  /\ UNCHANGED <<engineVars, last, residue, serial, tasks, saveInProgress, saveQueue, saving,
                 immediate, fsVars, container, isInitialized, returned, backupFile, logVars>>

\* the calls of Spec on the source instance, which is left alone once its
\* data is imported elsewhere
ImportNext ==
  \/ ~target.done /\ Next
  \/ \E now \in {DateV(clock), DateV(clock + 1)} : ExportImport(now)

ImportSpec == Init /\ [][ImportNext]_vars

\* ------------------------------------------------------------- QuerySpec
\* find on every small collection of schema 'counter': up to MaxDocs documents
\* whose optional field n is absent, 0, 1 or 2, in every insertion order.
MaxDocs == 3       \* documents in a collection of QuerySpec
MaxFinds == 1      \* find calls in one run of QuerySpec

QInit ==
  /\ \E ns \in UNION {[1..k -> {Undef} \cup {Num(v) : v \in 0..MaxN}] : k \in 0..MaxDocs} :
        collections =
          [nm \in Names |->
             [exists |-> TRUE, schema |-> "counter",
              documents |-> [i \in 1..Len(ns) |->
                               [NoDoc EXCEPT !["_id"] = IdStr(i), !["n"] = ns[i],
                                             !["createdAt"] = DateV(0),
                                             !["updatedAt"] = DateV(0)]]]]
  /\ indexes = <<>>
  /\ stCollections = collections
  /\ stIndexes = <<>>
  /\ file = serializeData(collections, <<>>)
  /\ ivNext = 1
  /\ clock = 1
  /\ last = [ok |-> TRUE, err |-> ""]
  /\ residue = {}
  /\ calls = 0
  /\ serial = [collections |-> collections, indexes |-> <<>>, overlap |-> FALSE]
  /\ tasks = <<>>
  /\ saveInProgress = FALSE
  /\ saveQueue = <<>>
  /\ saving = NoSave
  /\ immediate = FALSE
  /\ temp = NoTemp
  /\ fileWhole = TRUE
  /\ running = {}
  /\ settled = <<>>
  /\ container = buildFileBuffer("p")
  /\ isInitialized = TRUE
  /\ returned = NoFind
  /\ target = NoImport
  /\ backupFile = NoBackup
  /\ operationLog = <<>>
  /\ logFile = <<>>
  /\ keyData = [key |-> 1, salt |-> 1]
  /\ fileKey = [exists |-> TRUE, salt |-> 1, key |-> 1]
  /\ logSaves = <<>>

\* The queries asked: {}, {n: v}, {n: {op: v}}, {n: {$gte: x, $lt: y}},
\* {$and: [q1, q2]} and {$or: [q1, q2]}, the operands being the values of n
FindQueries ==
  LET Operands == {Num(v) : v \in 0..MaxN}
      OperatorMaps ==
        {<<[op |-> o, v |-> x]>> :
            o \in {"$eq", "$ne", "$gt", "$gte", "$lt", "$lte"}, x \in Operands}
        \cup {<<[op |-> o, v |-> [t |-> "list", items |-> {x}]]>> :
                 o \in {"$in", "$nin"}, x \in Operands}
        \cup {<<[op |-> "$gte", v |-> x], [op |-> "$lt", v |-> y]>> : x, y \in Operands}
        \cup {<<[op |-> o, v |-> Str("x")]>> : o \in {"$gt", "$gte", "$lt", "$lte"}}
  IN  {{}}
      \cup {{[f |-> "n", v |-> x]} : x \in Operands}
      \cup {{[f |-> "n", v |-> [t |-> "operators", ops |-> m]]} : m \in OperatorMaps}
      \cup {{[f |-> l, v |-> [t |-> "list",
                              items |-> {{[f |-> "n", v |-> Num(0)]},
                                         {[f |-> "n", v |-> Num(1)]}}]]} : l \in {"$and", "$or"}}

\* the sort options asked: none, {n: 1}, {n: -1}
FindSorts == {<<>>, <<[field |-> "n", direction |-> 1]>>, <<[field |-> "n", direction |-> -1]>>}

\* await db.find(name, query, {sort})
Find(name, query, sort) ==
  /\ Idle /\ calls < MaxFinds
  /\ collections[name].exists
  /\ \E o \in find(collections[name].documents, query, sort,
                   SchemaOf(collections[name].schema)) :
        returned' = [NoFind EXCEPT !.name = name, !.query = query, !.sort = sort,
                                   !.ok = o.ok, !.docs = o.docs]
  /\ calls' = calls + 1
  /\ UNCHANGED <<engineVars, last, residue, serial, tasks, saveInProgress, saveQueue, saving, immediate,
                 fsVars, container, isInitialized, target, backupFile, logVars>>

QueryNext == \E nm \in Names, q \in FindQueries, s \in FindSorts : Find(nm, q, s)

QuerySpec == QInit /\ [][QueryNext]_vars

\* --------------------------------------------------------------- LogSpec
\* The operation log of VDBStorage.  An entry is modelled by its timestamp.
\* The log starts empty, or one entry short of the limit, or at the limit, and
\* the database file holds what a save wrote when the log was so.
LogLimit == 1000
MaxLogOps == 3     \* setCollection, deleteCollection, setIndex, deleteIndex calls in one run
MaxLogSaves == 2   \* saveToFile requests that wait to be settled at one time

LogInit ==
  /\ \E k \in {0, LogLimit - 1, LogLimit} :
       /\ operationLog = [i \in 1..k |-> i]
       /\ logFile = [i \in 1..k |-> i]
       /\ clock = k + 1
       /\ \E exists \in {TRUE, k > 0} : fileKey = [exists |-> exists, salt |-> 1, key |-> 1]
  /\ keyData = [key |-> 1, salt |-> 1]
  /\ collections = [nm \in Names |-> NoColl]
  /\ indexes = <<>>
  /\ stCollections = [nm \in Names |-> NoColl]
  /\ stIndexes = <<>>
  /\ file = serializeData([nm \in Names |-> NoColl], <<>>)
  /\ ivNext = 1
  /\ last = [ok |-> TRUE, err |-> ""]
  /\ residue = {}
  /\ calls = 0
  /\ serial = [collections |-> [nm \in Names |-> NoColl], indexes |-> <<>>,
               overlap |-> FALSE]
  /\ tasks = <<>>
  /\ saveInProgress = FALSE
  /\ saveQueue = <<>>
  /\ saving = NoSave
  /\ immediate = FALSE
  /\ temp = NoTemp
  /\ fileWhole = TRUE
  /\ running = {}
  /\ settled = <<>>
  /\ container = buildFileBuffer("p")
  /\ isInitialized = TRUE
  /\ returned = NoFind
  /\ target = NoImport
  /\ backupFile = NoBackup
  /\ logSaves = <<>>

logSettledVars ==
  <<collections, indexes, ivNext, residue, serial, tasks, saveInProgress, saveQueue,
    saving, immediate, fsVars, container, isInitialized, returned, target, backupFile>>
logStillVars == <<last, logSettledVars>>

\* a logOperation that keeps every entry
logOperationUntrimmed(log, now) == Append(log, now)

\* logOperation (part_003 370-381): push, then slice(-1000) when over 1000
logOperation(log, now) ==
  LET pushed == Append(log, now)
  IN  IF Len(pushed) > LogLimit
      THEN SubSeq(pushed, Len(pushed) - LogLimit + 1, Len(pushed))
      ELSE pushed

\* setCollection, deleteCollection, setIndex, deleteIndex (part_003 317-363):
\* the change of the maps, then logOperation.  quiet tells of a pending save
\* that no operation ran since it was requested.
storageOperation(op, name) ==
  /\ calls < MaxLogOps
  /\ op \in {"setCollection", "deleteCollection", "setIndex", "deleteIndex"}
  /\ \/ /\ op = "setCollection"
        /\ \E data \in StoredData : stCollections' = [stCollections EXCEPT ![name] = data]
        /\ stIndexes' = stIndexes
     \/ /\ op = "deleteCollection"
        /\ stCollections' = [stCollections EXCEPT ![name] = NoColl]
        /\ stIndexes' = DeleteIndexesOf(stIndexes, name)
     \/ /\ op = "setIndex"
        /\ stIndexes' = IndexSet(stIndexes, [name |-> name, field |-> "email", unique |-> FALSE,
                                             sparse |-> FALSE, isMap |-> TRUE, data |-> {}])
        /\ stCollections' = stCollections
     \/ /\ op = "deleteIndex"
        /\ stIndexes' = IndexDelete(stIndexes, name, "email")
        /\ stCollections' = stCollections
  /\ operationLog' = logOperation(operationLog, clock)
  /\ clock' = clock + 1
  /\ calls' = calls + 1
  /\ logSaves' = [i \in 1..Len(logSaves) |-> [logSaves[i] EXCEPT !.quiet = FALSE]]
  /\ UNCHANGED <<file, logFile, keyData, fileKey, logStillVars>>

\* saveToFile (part_003 171-177): the request is queued, and
\* _processSaveQueue starts it at once when no save is in progress;
\* _performSave serializes the maps and the log as it starts
pushSave(queue, isCompact, log) ==
  Append(queue, [compact |-> isCompact, started |-> queue = <<>>, quiet |-> TRUE,
                 log |-> log, image |-> serializeData(stCollections, stIndexes)])

saveToFileLogged ==
  /\ Len(logSaves) < MaxLogSaves
  /\ logSaves' = pushSave(logSaves, FALSE, operationLog)
  /\ UNCHANGED <<stCollections, stIndexes, file, clock, calls, operationLog, logFile,
                 keyData, fileKey, logStillVars>>

\* compact() (part_003 407-410): the log is emptied, then saveToFile
compact ==
  /\ Len(logSaves) < MaxLogSaves
  /\ operationLog' = <<>>
  /\ logSaves' = pushSave(logSaves, TRUE, operationLog')
  /\ UNCHANGED <<stCollections, stIndexes, file, clock, calls, logFile, keyData, fileKey,
                 logStillVars>>

\* _processSaveQueue from setImmediate (part_003 179-199): the oldest request
\* starts, and _performSave serializes what the storage holds now
performSaveLogged ==
  /\ logSaves # <<>>
  /\ ~logSaves[1].started
  /\ logSaves' = [logSaves EXCEPT ![1] = [@ EXCEPT !.started = TRUE, !.log = operationLog,
                                     !.image = serializeData(stCollections, stIndexes)]]
  /\ UNCHANGED <<stCollections, stIndexes, file, clock, calls, operationLog, logFile,
                 keyData, fileKey, logStillVars>>

\* a save that writes the storage as it is when the file is written
settleLoggedLive(ok) ==
  /\ logSaves # <<>>
  /\ logSaves[1].started
  /\ logFile' = IF ok THEN operationLog ELSE logFile
  /\ file' = IF ok THEN serializeData(stCollections, stIndexes) ELSE file
  /\ fileKey' = IF ok THEN [exists |-> TRUE, salt |-> keyData.salt, key |-> keyData.key]
                ELSE fileKey
  /\ logSaves' = Tail(logSaves)
  /\ last' = [ok |-> ok, err |-> IF ok THEN "" ELSE "Failed to save database"]
  /\ UNCHANGED <<stCollections, stIndexes, clock, calls, operationLog, keyData,
                 logSettledVars>>

\* the rest of _performSave (part_003 208-243): after gzip the data is
\* encrypted under this.encryptionKey and buildFileBuffer writes this.salt,
\* both read in one turn; the image replaces the file, or the save fails and
\* the file stays
settleLogged(ok) ==
  /\ logSaves # <<>>
  /\ logSaves[1].started
  /\ logFile' = IF ok THEN logSaves[1].log ELSE logFile
  /\ file' = IF ok THEN logSaves[1].image ELSE file
  /\ fileKey' = IF ok THEN [exists |-> TRUE, salt |-> keyData.salt, key |-> keyData.key]
                ELSE fileKey
  /\ logSaves' = Tail(logSaves)
  /\ last' = [ok |-> ok, err |-> IF ok THEN "" ELSE "Failed to save database"]
  /\ UNCHANGED <<stCollections, stIndexes, clock, calls, operationLog, keyData,
                 logSettledVars>>

\* initialize when no file exists (part_003 37-50), which init() reaches again
\* for a call made before the first initialize has written the file
\* (VerusDB.js 60-70): deriveKey draws a new salt, and the key and the salt
\* are set in one turn
initialize(salt) ==
  /\ ~fileKey.exists
  /\ keyData' = [key |-> salt, salt |-> salt]
  /\ keyData' # keyData
  /\ UNCHANGED <<stCollections, stIndexes, file, clock, calls, operationLog, logFile,
                 logSaves, fileKey, logStillVars>>

\* parseVDBFile on a new instance (part_003 112-166): the salt is the one of
\* the file and the key is derived with it; the maps and the log are those
\* of the file
loadFromFile ==
  /\ logSaves = <<>>
  /\ fileKey.exists
  /\ keyData' = [key |-> fileKey.salt, salt |-> fileKey.salt]
  /\ stCollections' = file.collections
  /\ stIndexes' = file.indexes
  /\ operationLog' = logFile
  /\ operationLog' # operationLog \/ stCollections' # stCollections \/ stIndexes' # stIndexes
  /\ UNCHANGED <<file, clock, calls, logFile, logSaves, fileKey, logStillVars>>

LogNext ==
  \/ \E op \in {"setCollection", "deleteCollection", "setIndex", "deleteIndex"}, nm \in Names :
       storageOperation(op, nm)
  \/ saveToFileLogged
  \/ compact
  \/ performSaveLogged
  \/ \E ok \in BOOLEAN : settleLogged(ok)
  \/ loadFromFile
  \/ \E salt \in {1, 2} : initialize(salt)

LogSpec == LogInit /\ [][LogNext]_vars

\* ------------------------------------------------------------ PrefixSpec
\* Two collections, the name of one being the name of the other followed by
\* a dot and more: 'c' and 'c.d'.
PrefixNames == {"c", "c.d"}

PInit ==
  /\ collections = [nm \in PrefixNames |-> NoColl]
  /\ indexes = <<>>
  /\ stCollections = [nm \in PrefixNames |-> NoColl]
  /\ stIndexes = <<>>
  /\ file = serializeData([nm \in PrefixNames |-> NoColl], <<>>)
  /\ ivNext = 1
  /\ clock = 0
  /\ last = [ok |-> TRUE, err |-> ""]
  /\ residue = {}
  /\ calls = 0
  /\ serial = [collections |-> [nm \in Names |-> NoColl], indexes |-> <<>>,
               overlap |-> FALSE]
  /\ tasks = <<>>
  /\ saveInProgress = FALSE
  /\ saveQueue = <<>>
  /\ saving = NoSave
  /\ immediate = FALSE
  /\ temp = NoTemp
  /\ fileWhole = TRUE
  /\ running = {}
  /\ settled = <<>>
  /\ container = buildFileBuffer("p")
  /\ isInitialized = TRUE
  /\ returned = NoFind
  /\ target = NoImport
  /\ backupFile = NoBackup
  /\ operationLog = <<>>
  /\ logFile = <<>>
  /\ keyData = [key |-> 1, salt |-> 1]
  /\ fileKey = [exists |-> TRUE, salt |-> 1, key |-> 1]
  /\ logSaves = <<>>

PrefixNext ==
  \/ \E nm \in PrefixNames, wi \in BOOLEAN : CreateCollection(nm, "users", wi)
  \/ \E nm \in PrefixNames : DropCollection(nm)
  \/ \E nm \in PrefixNames : \E d \in InsertDocs(collections[nm].schema) :
        \E gid \in (IF d["_id"] = Undef THEN FreshIds ELSE {Undef}) : Insert(nm, d, gid)
  \/ \E nm \in PrefixNames : \E q \in Queries(collections[nm].schema) :
        \E u \in Updates(collections[nm].schema), multi \in BOOLEAN : Update(nm, q, u, multi)
  \/ \E nm \in PrefixNames : \E q \in Queries(collections[nm].schema), multi \in BOOLEAN :
        Delete(nm, q, multi)

PrefixSpec == PInit /\ [][PrefixNext]_vars

\* ================================================================ claims
\* no two documents of the sequence decrypt to the same defined value of f
UniqueIn(documents, sid, f) ==
  LET found == findIn(documents, {}, SchemaOf(sid))
  IN  \A i, j \in 1..Len(found) :
         (i # j /\ found[i][f] # Undef) => found[i][f] # found[j][f]

\* some stored document decrypts to the value v of f
Holds(documents, sid, f, v) ==
  v # Undef /\ Len(findIn(documents, {[f |-> f, v |-> v]}, SchemaOf(sid))) > 0

IsInsert(nm, d) ==
  \E gid \in (IF d["_id"] = Undef THEN FreshIds ELSE {Undef}) : Insert(nm, d, gid)

\* C1: in a collection whose schema flags the plain field email unique, an
\* awaited insert keeps the stored emails pairwise different, and an insert
\* whose email is the email of a stored document is rejected with 'Duplicate
\* value for unique field' and leaves the stored documents as they were.
C1_InsertEnforcesUnique ==
  [][\A nm \in Names : \A d \in InsertDocs("users") :
        (collections[nm].schema = "users" /\ IsInsert(nm, d)) =>
           /\ UniqueIn(collections[nm].documents, "users", "email")
                 => UniqueIn(collections'[nm].documents, "users", "email")
           /\ Holds(collections[nm].documents, "users", "email", d["email"])
                 => /\ last' = [ok |-> FALSE, err |-> "Duplicate"]
                    /\ collections'[nm].documents = collections[nm].documents]_vars

\* C2: an awaited update keeps the stored emails pairwise different.
C2_UpdateEnforcesUnique ==
  [][\A nm \in Names : \A q \in Queries("users"), u \in Updates("users"), multi \in BOOLEAN :
        (collections[nm].schema = "users" /\ Update(nm, q, u, multi)
           /\ UniqueIn(collections[nm].documents, "users", "email"))
        => UniqueIn(collections'[nm].documents, "users", "email")]_vars

\* C4: in a collection whose schema flags ssn unique and encrypted, an insert
\* whose ssn is the plaintext of a stored document is rejected and the
\* stored plaintexts stay pairwise different.
C4_EncryptedUnique ==
  [][\A nm \in Names : \A d \in InsertDocs("secret") :
        (collections[nm].schema = "secret" /\ IsInsert(nm, d)
           /\ UniqueIn(collections[nm].documents, "secret", "ssn"))
        => /\ UniqueIn(collections'[nm].documents, "secret", "ssn")
           /\ Holds(collections[nm].documents, "secret", "ssn", d["ssn"]) => ~last'.ok]_vars

\* C6: an insert that is rejected leaves the documents of the collection and
\* every index as they were.
C6_InsertAllOrNothing ==
  [][\A nm \in Names : \A d \in InsertDocs(collections[nm].schema) :
        (IsInsert(nm, d) /\ ~last'.ok)
        => (collections' = collections /\ indexes' = indexes)]_vars

\* C7: a rejected call leaves the file as it was, and no later save writes
\* what a rejected call left in a document map.
NothingLeftBehindIsSaved ==
  \A r \in residue : Lookup(file.collections[r.name].documents, r.id) # r.img

C7_FailuresNeverPersisted ==
  [][/\ ~last'.ok => file' = file
     /\ NothingLeftBehindIsSaved']_vars

\* C9: a new instance opened on the file after fulfilled calls has the same
\* collections and find returns the same documents as just before.
C9_RoundTrip ==
  [][Reopen =>
       \A nm \in Names :
          /\ collections'[nm].exists = collections[nm].exists
          /\ DocSet(findIn(collections'[nm].documents, {}, SchemaOf(collections'[nm].schema)))
             = DocSet(findIn(collections[nm].documents, {}, SchemaOf(collections[nm].schema)))]_vars

\* C10: after a fulfilled call the file decodes to the in-memory state,
\* indexes included.
C10_FileEqualsMemory ==
  last.ok =>
     file = serializeData(collections, [i \in 1..Len(indexes) |-> serializeIndex(indexes[i])])

\* C3: once the inserts issued together on a collection whose schema flags
\* email unique have all settled, no two stored documents share an email.
C3_ConcurrentInsertsUnique ==
  \A nm \in Names :
     (tasks = <<>> /\ collections[nm].schema = "users")
     => UniqueIn(collections[nm].documents, "users", "email")

\* C5: once the insert, update and delete calls issued without awaiting one
\* another have all settled, the documents and the indexes are those of the
\* same calls run one at a time in the order they were issued.
C5_SerializedInSubmissionOrder ==
  (tasks = <<>> /\ ~serial.overlap)
  => (collections = serial.collections /\ indexes = serial.indexes)

\* the image f holds what the call t did and no other call has undone since
Reflects(t, f) ==
  /\ \A w \in t.wrote : Lookup(f.collections[t.name].documents, w.id) = w.img
  /\ t.expect = "exists"
        => (f.collections[t.name].exists /\ f.collections[t.name].schema = t.sid)
  /\ t.expect = "gone" => ~f.collections[t.name].exists

Recomputed(documents, f, sparse) ==
  {[k |-> StringOf(d[f]), id |-> d["_id"]] :
     d \in {e \in DocSet(documents) : e[f] # Undef \/ ~sparse}}

\* C11: every index built on this instance maps each key String(v) exactly
\* to the _ids of the documents now in the collection whose field is v.
C11_IndexCoherence ==
  \A i \in 1..Len(indexes) :
     (indexes[i].isMap /\ collections[indexes[i].name].exists)
     => indexes[i].data
          = Recomputed(collections[indexes[i].name].documents, indexes[i].field,
                       indexes[i].sparse)

\* C12: at any moment at most one _performSave is executing, so at most one
\* save is between the write of the temporary file and its rename.
C12_SingleWriter ==
  /\ Cardinality(running) <= 1
  /\ running # {} => saveInProgress

\* a request arrived between the end of a save and the setImmediate callback
\* and started the next save, with another request still queued
C12_Witness ==
  /\ immediate /\ saveQueue # <<>>
  /\ \E r \in running : r.pc = "rename"

\* C13: the requests are settled in the order they were enqueued, each one
\* rejected exactly when its own save failed, and every request enqueued is
\* settled in the end, whatever happened to the saves before it.
C13_FifoSettlement ==
  /\ [](\A i \in 1..Len(settled) : settled[i].req = i /\ settled[i].ok = ~settled[i].threw)
  /\ \A k \in 1..MaxSaves : (NextSave > k) ~> (Len(settled) >= k)

\* a request was rejected and the one queued behind it was then resolved
C13_Witness ==
  \E i \in 1..Len(settled) :
     /\ ~settled[i].ok
     /\ i < Len(settled) /\ settled[i + 1].ok

NothingLoaded ==
  /\ ~last'.ok /\ ~isInitialized'
  /\ \A nm \in Names : ~collections'[nm].exists /\ ~stCollections'[nm].exists
  /\ indexes' = <<>> /\ stIndexes' = <<>>
  /\ file' = file /\ container' = container

\* C15: opening the file with a passphrase other than the one it was saved
\* with is rejected, loads no collection and no index, and leaves the file
\* as it was.
C15_WrongPassphrase ==
  [][\A passphrase \in Passphrases :
       (OpenWith(passphrase) /\ passphrase # container.key) => NothingLoaded]_vars

\* an open with the wrong passphrase was rejected on a file that holds documents
C15_Witness ==
  /\ last.err = "Decryption failed"
  /\ \E nm \in Names : file.collections[nm].documents # <<>>

\* C16: opening a file whose magic is not VDB1, whose version is not 1 or
\* whose ciphertext is not the one of the stored digest is rejected, loads
\* nothing and leaves the file as it was; the digest mismatch is reported
\* whatever the passphrase, before anything is decrypted.
C16_DamagedContainer ==
  [][\A passphrase \in Passphrases :
       (/\ OpenWith(passphrase)
        /\ (container.magic # "VDB1" \/ container.version # 1 \/ ~container.digestOk))
       => /\ NothingLoaded
          /\ (container.magic = "VDB1" /\ container.version = 1)
                => last'.err = "VDB file integrity check failed"]_vars

\* an open was rejected for the digest of a file that holds documents
C16_Witness ==
  /\ last.err = "VDB file integrity check failed"
  /\ \E nm \in Names : file.collections[nm].documents # <<>>

\* C17: after any sequence of insert and update calls, fulfilled or
\* rejected, every stored document satisfies the schema of its collection:
\* no field outside the schema, every field of its declared type, arrays
\* within maxLength.
C17_SchemaSoundness ==
  \A nm \in Names :
     collections[nm].exists =>
        \A d \in DocSet(collections[nm].documents) :
           validateDocument(processDocumentFromStorage(d, SchemaOf(collections[nm].schema)),
                            SchemaOf(collections[nm].schema), d["_id"], Now).ok

\* C18: an update leaves every document it finds in the collection under
\* the same _id and with the createdAt instant it had, and with an updatedAt
\* that is not before its createdAt.
C18_SystemFields ==
  [][\A nm \in Names :
       (\E q \in Queries(collections[nm].schema), u \in Updates(collections[nm].schema),
           multi \in BOOLEAN : Update(nm, q, u, multi))
       => \A id \in IdsOf(collections[nm].documents) :
             /\ MapHas(collections'[nm].documents, id)
             /\ Lookup(collections'[nm].documents, id)["createdAt"].n
                  = Lookup(collections[nm].documents, id)["createdAt"].n
             /\ Lookup(collections'[nm].documents, id)["updatedAt"].n
                  >= Lookup(collections'[nm].documents, id)["createdAt"].n]_vars

\* the fields the schema flags encrypted
EncryptedFields(sid) == {f \in UserFields : SchemaOf(sid)[f].encrypted}

\* C19: every value of a field flagged encrypted is held in its encrypted
\* form in the document map and in the file image, and find returns it as
\* the plaintext that was given to insert or update.
C19_EncryptedAtRest ==
  \A nm \in Names :
     /\ \A f \in EncryptedFields(collections[nm].schema) :
           /\ \A d \in DocSet(collections[nm].documents) :
                 d[f] # Undef => (d[f].iv \in IVs /\ d[f] # decryptField(d[f]))
           /\ \A r \in DocSet(findIn(collections[nm].documents, {},
                                      SchemaOf(collections[nm].schema))) :
                 r[f] # Undef => r[f] = Str("s")
     /\ \A f \in EncryptedFields(file.collections[nm].schema) :
           \A d \in DocSet(file.collections[nm].documents) :
              d[f] # Undef => (d[f].iv \in IVs /\ d[f] # decryptField(d[f]))

\* the file holds a document whose encrypted field was encrypted again by an update
C19_Witness ==
  \E nm \in Names :
     /\ collections[nm].schema = "secret"
     /\ \E d \in DocSet(file.collections[nm].documents) : d["ssn"].iv > 1
     /\ file.collections[nm] = [collections[nm] EXCEPT !.documents = JsonDocs(@)]

\* C20: dropCollection of an existing collection removes it and every index
\* on it from the instance and from the file.
C20_DropRemovesIndexes ==
  [][\A nm \in Names :
       (DropCollection(nm) /\ collections[nm].exists)
       => /\ ~collections'[nm].exists /\ ~file'.collections[nm].exists
          /\ ~\E i \in 1..Len(indexes') : indexes'[i].name = nm
          /\ ~\E i \in 1..Len(file'.indexes) : file'.indexes[i].name = nm]_vars

\* two documents hold the same defined value of f, as find returns it
SameValueTwice(documents, sid, f) ==
  LET found == findIn(documents, {}, SchemaOf(sid))
  IN  \E i, j \in 1..Len(found) : i # j /\ found[i][f] # Undef /\ found[i][f] = found[j][f]

\* the indexes other than the one on (nm, f)
OtherIndexes(idx, nm, f) == SelectSeq(idx, LAMBDA x : ~(x.name = nm /\ x.field = f))

\* C21: createIndex on an existing collection is rejected, changing no
\* index, when the index exists or when unique is asked and two documents
\* hold the same value; it registers the index built from the current
\* documents when there is no such index and unique is not asked.  dropIndex
\* removes an existing index and is rejected for a missing one.
C21_CreateAndDropIndex ==
  [][\A nm \in Names :
       LET sid == collections[nm].schema
           f == IndexFieldOf(sid)
       IN  /\ \A u, sp \in BOOLEAN :
                (CreateIndex(nm, u, sp) /\ collections[nm].exists) =>
                   /\ (IndexHas(indexes, nm, f)
                        \/ (u /\ SameValueTwice(collections[nm].documents, sid, f)))
                      => (~last'.ok /\ indexes' = indexes /\ stIndexes' = stIndexes)
                   /\ (~IndexHas(indexes, nm, f) /\ ~u)
                      => /\ last'.ok
                         /\ \E i \in IndexPos(indexes', nm, f) :
                               indexes'[i].data
                                 = Recomputed(collections[nm].documents, f, sp)
                         /\ OtherIndexes(indexes', nm, f) = indexes
           /\ \A g \in UserFields :
                DropIndex(nm, g) =>
                   IF IndexHas(indexes, nm, g)
                   THEN last'.ok /\ ~IndexHas(indexes', nm, g)
                        /\ indexes' = OtherIndexes(indexes, nm, g)
                   ELSE ~last'.ok /\ indexes' = indexes]_vars

\* what one operator of a query asks of the value of the field
Meets(value, o) ==
  CASE o.op = "$eq" -> StrictEq(value, o.v)
    [] o.op = "$ne" -> ~StrictEq(value, o.v)
    [] o.op = "$gt" -> value.t = "number" /\ value.n > o.v.n
    [] o.op = "$gte" -> value.t = "number" /\ value.n >= o.v.n
    [] o.op = "$lt" -> value.t = "number" /\ value.n < o.v.n
    [] o.op = "$lte" -> value.t = "number" /\ value.n <= o.v.n
    [] o.op = "$in" -> value \in o.v.items
    [] o.op = "$nin" -> value \notin o.v.items

\* the document satisfies a query of literals and operator mappings
Satisfies(document, query) ==
  \A q \in query :
     IF q.v.t = "operators"
     THEN \A i \in 1..Len(q.v.ops) : Meets(document[q.f], q.v.ops[i])
     ELSE StrictEq(document[q.f], q.v)

\* the queries on the fields of the documents: no $and, no $or
FieldQueries == {query \in FindQueries : \A q \in query : q.f \in UserFields}

\* the elements of a sequence
Range(seq) == {seq[i] : i \in 1..Len(seq)}

\* C22: find(C, q) returns exactly the documents of C that satisfy q: a
\* literal asks for strict equality, an operator mapping for the conjunction
\* of its operators, and the empty query for every document.
C22_FindReturnsTheMatches ==
  (returned.name \in Names /\ returned.query \in FieldQueries) =>
     LET documents == collections[returned.name].documents
     IN  /\ returned.ok
         /\ Range(returned.docs) = {d \in Range(documents) : Satisfies(d, returned.query)}
         /\ Len(returned.docs) = Cardinality(Range(returned.docs))

\* the queries {n: {op: v}} of one operator
OneOperator(ops) ==
  {query \in FieldQueries :
     \E q \in query : q.v.t = "operators" /\ Len(q.v.ops) = 1 /\ q.v.ops[1].op \in ops}

\* C23: a document that lacks field f matches {f: {op: v}} for no operator
\* among $eq, $gt, $gte, $lt, $lte, $in, $nin; it matches under $ne.
C23_MissingField ==
  returned.name \in Names =>
     LET lacking == {d \in Range(collections[returned.name].documents) : d["n"] = Undef}
     IN  /\ returned.query \in OneOperator({"$eq", "$gt", "$gte", "$lt", "$lte", "$in", "$nin"})
            => returned.ok /\ Range(returned.docs) \cap lacking = {}
         /\ returned.query \in OneOperator({"$ne"})
            => returned.ok /\ lacking \subseteq Range(returned.docs)

\* C24: a top-level {$and: [q1..qn]} matches the documents matching every
\* qi, {$or: [q1..qn]} those matching at least one qi, and such a query does
\* not raise an error.
C24_LogicalOperators ==
  returned.name \in Names =>
     \A q \in returned.query :
        q.f \in {"$and", "$or"} =>
           LET documents == Range(collections[returned.name].documents)
               matches(d) == IF q.f = "$and"
                             THEN \A sub \in q.v.items : Satisfies(d, sub)
                             ELSE \E sub \in q.v.items : Satisfies(d, sub)
           IN  /\ returned.ok
               /\ Range(returned.docs) = {d \in documents : matches(d)}

\* document a is greater than document b under the one sort key asked:
\* by the numbers, reversed for direction -1; for direction 1 a defined value
\* is greater than an undefined one
GreaterUnder(a, b, sort) ==
  LET x == a[sort[1].field]
      y == b[sort[1].field]
  IN  IF sort[1].direction = 1
      THEN \/ x.t = "number" /\ y.t = "number" /\ x.n > y.n
           \/ x # Undef /\ y = Undef
      ELSE x.t = "number" /\ y.t = "number" /\ x.n < y.n

\* C25: find(C, q, {sort: S}) returns the matching documents in an order
\* monotone under S: no document is greater than the one after it, a
\* document whose sort field is undefined coming before the defined ones.
C25_SortMonotone ==
  (returned.name \in Names /\ returned.sort # <<>> /\ returned.ok) =>
     \A i \in 1..(Len(returned.docs) - 1) :
        ~GreaterUnder(returned.docs[i], returned.docs[i + 1], returned.sort)

\* what find(name, {}) returns before and after a step, by _id
FoundBefore(nm, id) ==
  Lookup(findIn(collections[nm].documents, {}, SchemaOf(collections[nm].schema)), id)

FoundAfter(nm, id) ==
  Lookup(findIn(collections'[nm].documents, {}, SchemaOf(collections'[nm].schema)), id)

\* the ids of the documents that find(name, filter) returns before a step
Matching(nm, filter) ==
  {id \in IdsOf(collections[nm].documents) : Satisfies(FoundBefore(nm, id), filter)}

C27_DeleteRemovesMatches ==
  [][\A nm \in Names :
       \A q \in Queries(collections[nm].schema), multi \in BOOLEAN :
          (Delete(nm, q, multi) /\ last'.ok) =>
             LET matched == Matching(nm, q)
                 removed == IdsOf(collections[nm].documents) \ IdsOf(collections'[nm].documents)
             IN  /\ removed \subseteq matched
                 /\ Cardinality(removed) = IF multi THEN Cardinality(matched)
                                           ELSE IF matched = {} THEN 0 ELSE 1
                 /\ returned'.deletedCount = Cardinality(removed)
                 /\ IdsOf(collections'[nm].documents) \subseteq IdsOf(collections[nm].documents)
                 /\ \A id \in IdsOf(collections'[nm].documents) :
                       Lookup(collections'[nm].documents, id) = Lookup(collections[nm].documents, id)
                 /\ Len(indexes') = Len(indexes)
                 /\ \A i \in 1..Len(indexes) :
                       IF indexes[i].name = nm
                       THEN indexes'[i].data = {e \in indexes[i].data : e.id \notin removed}
                       ELSE indexes'[i] = indexes[i]]_vars

\* C28: a fulfilled insert adds exactly one document and disturbs no other:
\* find returns one document more, each document found before is found
\* unchanged, and the new one has _id, createdAt and updatedAt; also when
\* the caller supplies the _id.
C28_InsertAddsOne ==
  [][\A nm \in Names :
       \A d \in InsertDocs(collections[nm].schema) :
          \A gid \in (IF d["_id"] = Undef THEN FreshIds ELSE {Undef}) :
             (Insert(nm, d, gid) /\ last'.ok) =>
                LET before == IdsOf(collections[nm].documents)
                    after == IdsOf(collections'[nm].documents)
                IN  /\ Len(collections'[nm].documents) = Len(collections[nm].documents) + 1
                    /\ \A id \in before : FoundAfter(nm, id) = FoundBefore(nm, id)
                    /\ \E id \in after \ before :
                          /\ d["_id"] # Undef => id = d["_id"]
                          /\ FoundAfter(nm, id)["createdAt"] # Undef
                          /\ FoundAfter(nm, id)["updatedAt"] # Undef
                          /\ \A f \in UserFields : FoundAfter(nm, id)[f] = d[f]]_vars

\* the _id, the creation instant and the fields of the schema of the
\* documents; updatedAt is stamped by every insert
Kept(documents) ==
  {[f \in AllFields \ {"updatedAt"} |-> d[f]] : d \in Range(documents)}

\* C29: importing what export() returned into an empty database succeeds,
\* creates every exported collection, and find returns in each the documents
\* find returns in the source: the same _ids, each with the same fields.
C29_ExportImport ==
  target.done =>
     /\ target.ok
     /\ \A nm \in Names :
           /\ target.collections[nm].exists = collections[nm].exists
           /\ collections[nm].exists =>
                 LET schema == SchemaOf(collections[nm].schema)
                 IN  Kept(findIn(target.collections[nm].documents, {}, schema))
                       = Kept(findIn(collections[nm].documents, {}, schema))

\* the image of the last save that completed its rename: the one now being
\* resolved, else the last one fulfilled, else the file made by initialize
LastCompletedSave ==
  IF \E r \in running : r.pc = "resolve"
  THEN (CHOOSE r \in running : r.pc = "resolve").image
  ELSE LET done == {i \in 1..Len(settled) : settled[i].ok}
       IN  IF done = {} THEN serializeData([nm \in Names |-> NoColl], <<>>)
           ELSE settled[CHOOSE i \in done : \A j \in done : j <= i].image

\* C30: backup(dest) leaves at dest the bytes of the database file, which
\* are those of the last completed save whatever is in memory or being
\* written; it changes neither the file nor the data in memory, and dest
\* opens with the passphrase of the source.
C30_BackupCopiesFile ==
  [][backup =>
       /\ backupFile'.exists /\ backupFile'.whole
       /\ backupFile'.image = file
       /\ backupFile'.container = container
       /\ backupFile'.image = LastCompletedSave
       /\ parseVDBFile(backupFile'.container, container.key).ok
       /\ UNCHANGED <<file, fileWhole, container, temp, stCollections, stIndexes,
                      collections, indexes, saveQueue, running>>]_vars

\* a backup was taken while a save had written its temporary file and the
\* data in memory was different from both files
C30_Witness ==
  /\ backupFile.exists
  /\ backupFile.image = file
  /\ temp.exists /\ temp.image # file
  /\ serializeData(stCollections, stIndexes) # file
  /\ serializeData(stCollections, stIndexes) # temp.image

\* C31: the operation log, in memory and in the file, never holds more than
\* LogLimit entries, and they are in order of time; each setCollection,
\* deleteCollection, setIndex and deleteIndex appends one entry, after which
\* the log is the most recent LogLimit entries of the old log and the new one;
\* a load leaves in memory the log of the file; and the file written for a
\* compact request holds an empty log when no operation ran since the request.
C31_OperationLog ==
  /\ [](/\ Len(operationLog) <= LogLimit
        /\ Len(logFile) <= LogLimit
        /\ \A i \in 1..(Len(operationLog) - 1) : operationLog[i] < operationLog[i + 1])
  /\ [][/\ calls' # calls =>
             LET all == Append(operationLog, clock)
                 kept == IF Len(all) < LogLimit THEN Len(all) ELSE LogLimit
             IN  operationLog' = SubSeq(all, Len(all) - kept + 1, Len(all))
        /\ (calls' = calls /\ logSaves' = logSaves
              /\ <<operationLog, stCollections, stIndexes>>' # <<operationLog, stCollections, stIndexes>>)
             => operationLog' = logFile
        /\ (logSaves # <<>> /\ Len(logSaves') < Len(logSaves) /\ last'.ok
              /\ logSaves[1].compact /\ logSaves[1].quiet)
             => logFile' = <<>>]_vars

\* the log was at the limit when an operation was logged, a save wrote it, and
\* then compact() emptied the log and its save serialized it
C31_Witness ==
  /\ Len(logFile) = LogLimit
  /\ logFile[LogLimit] = LogLimit + 1
  /\ operationLog = <<>>
  /\ logSaves # <<>>
  /\ logSaves[1].compact /\ logSaves[1].started /\ logSaves[1].quiet
  /\ logSaves[1].log = <<>>

\* C32: an update that returns an error leaves every document of the
\* collection, the arrays inside the stored documents and the documents
\* matched earlier in the call included, and every index as before the call.
C32_UpdateAllOrNothing ==
  [][\A nm \in Names :
       \A q \in Queries(collections[nm].schema), u \in Updates(collections[nm].schema),
          multi \in BOOLEAN :
          (Update(nm, q, u, multi) /\ ~last'.ok) =>
             /\ collections' = collections
             /\ indexes' = indexes]_vars

\* C33: a createCollection that returns an error leaves the set of
\* collections, the schema and documents of every collection, the set of
\* indexes and the file as before the call.
C33_CreateCollectionAllOrNothing ==
  [][\A nm \in Names, sid \in SchemaIds, withIndex \in BOOLEAN :
       (CreateCollection(nm, sid, withIndex) /\ ~last'.ok) =>
          /\ collections' = collections
          /\ indexes' = indexes
          /\ file' = file]_vars

\* C34: for an operator among $gt, $gte, $lt, $lte, a document whose field
\* holds a value of another type than the operand, which the value does not
\* convert to, does not match {f: {op: v}}.
C34_OrderedAcrossTypes ==
  (returned.name \in Names /\ returned.query \in OneOperator({"$gt", "$gte", "$lt", "$lte"}))
     => /\ returned.ok
        /\ \A q \in returned.query, d \in Range(returned.docs) :
              d["n"] # Undef => d["n"].t = q.v.ops[1].v.t

\* C35: getStats(C) reports as documentCount the number of stored documents
\* of C and as index count the number of indexes that exist on C.
C35_GetStats ==
  \A nm \in Names :
     collections[nm].exists =>
        /\ getStats(collections, nm).documentCount =
              Len(findIn(collections[nm].documents, {}, SchemaOf(collections[nm].schema)))
        /\ getStats(collections, nm).indexes =
              Cardinality({i \in 1..Len(indexes) : indexes[i].name = nm})

\* C36: when a caller changes an array inside a document that find returned,
\* a later find returns what it would have returned and the next save writes
\* what it would have written.
C36_HandedDocumentsIsolated ==
  [][\A nm \in Names, i \in 1..MaxIds :
       mutateReturned(nm, i) =>
          /\ findIn(collections'[nm].documents, {}, SchemaOf(collections'[nm].schema))
               = findIn(collections[nm].documents, {}, SchemaOf(collections[nm].schema))
          /\ saveCollection(stCollections, nm, collections'[nm])
               = saveCollection(stCollections, nm, collections[nm])]_vars

\* C37: under fair scheduling, with every file-system call returning, every
\* saveToFile request is settled in the end, and whenever requests wait or a
\* save is in progress the queue becomes empty with no save in progress,
\* however the requests arrive between the end of a save and the deferred
\* restart of the queue.
C37_SaveQueueLiveness ==
  /\ \A k \in 1..MaxSaves :
        (NextSave > k) ~> (\E i \in 1..Len(settled) : settled[i].req = k)
  /\ (saveQueue # <<>> \/ saveInProgress) ~> (saveQueue = <<>> /\ ~saveInProgress /\ running = {})

\* a request arrived after a save had ended and before the deferred restart of
\* the queue ran: it started the save of the request that waited
C37_Witness ==
  /\ immediate
  /\ saveInProgress
  /\ saveQueue # <<>>
  /\ Len(settled) > 0

\* C38: the image a save writes is the storage (collections, indexes and
\* operation log) as it was at the one instant the save started: it is
\* serialized at that instant, it stays as serialized whatever operation
\* runs during the save, and it is what the file holds afterwards; and the
\* data of the file is encrypted under the key derived with the salt that
\* the same file carries.
C38_ConsistentSnapshot ==
  [][/\ \A i \in 1..Len(logSaves') :
          (logSaves'[i].started /\ (i > Len(logSaves) \/ ~logSaves[1].started)
             /\ Len(logSaves') >= Len(logSaves))
            => /\ logSaves'[i].image = serializeData(stCollections', stIndexes')
               /\ logSaves'[i].log = operationLog'
     /\ (logSaves # <<>> /\ logSaves[1].started /\ Len(logSaves') >= Len(logSaves))
          => /\ logSaves'[1].image = logSaves[1].image
             /\ logSaves'[1].log = logSaves[1].log
     /\ (logSaves # <<>> /\ Len(logSaves') < Len(logSaves) /\ last'.ok)
          => /\ file' = logSaves[1].image
             /\ logFile' = logSaves[1].log
             /\ fileKey'.exists /\ fileKey'.key = fileKey'.salt]_vars

\* a save has serialized its image, operations have changed the storage since
\* and a second initialize has derived another key
C38_Witness ==
  /\ logSaves # <<>>
  /\ logSaves[1].started /\ ~logSaves[1].quiet
  /\ logSaves[1].image # serializeData(stCollections, stIndexes)
  /\ logSaves[1].log # operationLog
  /\ keyData.salt = 2

\* C39: insert, update, delete and dropCollection on a collection A leave
\* every index that was created on another collection B as it was, in the
\* engine and in the storage, for the names 'c' and 'c.d' either way round.
C39_IndexesIndependent ==
  [][\A a, b \in PrefixNames :
       LET on(idx) == SelectSeq(idx, LAMBDA x : x.name = b)
           called ==
             \/ \E d \in InsertDocs(collections[a].schema) :
                   \E gid \in (IF d["_id"] = Undef THEN FreshIds ELSE {Undef}) : Insert(a, d, gid)
             \/ \E q \in Queries(collections[a].schema) :
                   \E u \in Updates(collections[a].schema), multi \in BOOLEAN :
                      Update(a, q, u, multi)
             \/ \E q \in Queries(collections[a].schema), multi \in BOOLEAN : Delete(a, q, multi)
             \/ DropCollection(a)
       IN  (a # b /\ called) => (on(indexes') = on(indexes) /\ on(stIndexes') = on(stIndexes))]_vars

\* C40: when an instance that holds what it wrote to the file is replaced by
\* one opened from the file, insert, update and delete on a collection that
\* has an index succeed on the new instance exactly when they would have
\* succeeded on the old one.
C40_ReopenedBehavesAlike ==
  [][\A nm \in Names :
       LET sid == collections[nm].schema
           schema == SchemaOf(sid)
           old == collections[nm].documents
           new == collections'[nm].documents
           inserts(documents, idx, d, gid) ==
             insertBody(documents, idx, sid, nm, d, gid, ivNext, Now).ok
           updates(documents, idx, q, u) ==
             updateLoop(filterDocuments(documents, q, schema), 1, documents, idx, sid, nm, u,
                        ivNext, Now).ok
           deletes(documents, idx, q) ==
             deleteLoop(filterDocuments(documents, q, schema), 1, documents, idx, nm).ok
       IN  (/\ Reopen
            /\ collections[nm].exists
            /\ \E i \in 1..Len(indexes) : indexes[i].name = nm
            /\ JsonDocs(old) = file.collections[nm].documents
            /\ [i \in 1..Len(indexes) |-> serializeIndex(indexes[i])] = file.indexes)
           => /\ \A d \in InsertDocs(sid) :
                    \A gid \in (IF d["_id"] = Undef THEN FreshIds ELSE {Undef}) :
                       inserts(new, indexes', d, gid) = inserts(old, indexes, d, gid)
              /\ \A q \in Queries(sid), u \in Updates(sid) :
                    updates(new, indexes', q, u) = updates(old, indexes, q, u)
              /\ \A q \in Queries(sid) : deletes(new, indexes', q) = deletes(old, indexes, q)]_vars

====
